---- MODULE Spec2Model ----
(***************************************************************************)
(* Bulk campaign job engine of SMTP2GO Sender Pro (Cloudflare Worker).     *)
(* One Durable Object (JobStore) per job id holds the job record under the *)
(* storage key 'job' and a single alarm.  Strings are sequences of         *)
(* one-character strings so that regular expressions, trimming and slicing *)
(* are computed as the code computes them.                                 *)
(***************************************************************************)
EXTENDS Integers, Sequences, FiniteSets, TLC

\* ------------------------------------------------------------------------
\* Characters and strings
\* ------------------------------------------------------------------------
Lower == {"a","b","c","d","e","f","g","h","i","j","k","l","m",
          "n","o","p","q","r","s","t","u","v","w","x","y","z"}

Upper == {"A","B","C","D","E","F","G","H","I","J","K","L","M",
          "N","O","P","Q","R","S","T","U","V","W","X","Y","Z"}

Digit == {"0","1","2","3","4","5","6","7","8","9"}

Letter == Lower \cup Upper

\* \w
WordChar == Letter \cup Digit \cup {"_"}

\* \s (the whitespace characters the model uses)
SpaceChar == {" ", "\t", "\n"}

\* [\w\s.-] widened by '!'
PlaceholderCharWide == WordChar \cup SpaceChar \cup {".", "-", "!"}

\* [\w\s.-]
PlaceholderChar == WordChar \cup SpaceChar \cup {".", "-"}

\* [a-zA-Z0-9._%+-]
EmailLocalChar == Letter \cup Digit \cup {".", "_", "%", "+", "-"}

\* [a-zA-Z0-9.-]
EmailDomainChar == Letter \cup Digit \cup {".", "-"}

Min(a, b) == IF a < b THEN a ELSE b

Max(a, b) == IF a > b THEN a ELSE b

\* s.slice(from0, to0) for 0 <= from0, 0 <= to0 (zero-based, end exclusive)
Slice(s, from0, to0) ==
  LET e == Min(to0, Len(s))
  IN  IF from0 >= e THEN <<>> ELSE SubSeq(s, from0 + 1, e)

AllIn(s, from1, to1, cls) == \A i \in from1..to1 : s[i] \in cls

\* n copies of the character c
RECURSIVE Repeat(_, _)
Repeat(c, n) == IF n <= 0 THEN <<>> ELSE <<c>> \o Repeat(c, n - 1)

\* the least element of a non-empty set of integers
SetMin(S) == CHOOSE x \in S : \A y \in S : x <= y

\* the greatest element of a non-empty set of integers
SetMax(S) == CHOOSE x \in S : \A y \in S : x >= y

\* s without its longest prefix and its longest suffix made of characters of cls
StripBoth(s, cls) ==
  LET keep == {i \in 1..Len(s) : s[i] \notin cls}
  IN  IF keep = {} THEN <<>> ELSE SubSeq(s, SetMin(keep), SetMax(keep))

\* String.prototype.trim
Trim(s) == StripBoth(s, SpaceChar)

\* s without its leading whitespace
TrimLeft(s) ==
  LET keep == {i \in 1..Len(s) : s[i] \notin SpaceChar}
  IN  IF keep = {} THEN <<>> ELSE SubSeq(s, SetMin(keep), Len(s))

\* ------------------------------------------------------------------------
\* JSON values carried by a recipient: t is the JavaScript type, s is the
\* result of String(v).  A recipient is an ordered list of <<key, value>>.
\* ------------------------------------------------------------------------
Str(s) == [t |-> "string", s |-> s]

JsNull == [t |-> "null", s |-> <<"n","u","l","l">>]

JsNum0 == [t |-> "number", s |-> <<"0">>]

JsFalse == [t |-> "boolean", s |-> <<"f","a","l","s","e">>]

\* the value of a missing property
JsUndefined == [t |-> "undefined", s |-> <<"u","n","d","e","f","i","n","e","d">>]

\* ToBoolean(v)
Truthy(v) ==
  CASE v.t = "string"  -> v.s # <<>>
    [] v.t = "number"  -> v.s # <<"0">>
    [] v.t = "boolean" -> v.s # <<"f","a","l","s","e">>
    [] OTHER           -> FALSE

\* a || b
OrElse(a, b) == IF Truthy(a) THEN a ELSE b

\* obj[key]: the last entry with that key, undefined when there is none
GetProp(obj, key) ==
  LET hits == {i \in 1..Len(obj) : obj[i][1] = key}
  IN  IF hits = {} THEN JsUndefined ELSE obj[SetMax(hits)][2]

\* ------------------------------------------------------------------------
\* Utility helpers of the worker
\* ------------------------------------------------------------------------

\* isValidEmail that accepts every non-empty value
isValidEmailLoose(email) == Truthy(email)

\* /^[a-zA-Z0-9._%+-]+@[a-zA-Z0-9.-]+\.[a-zA-Z]{2,}$/.test(email || '')
isValidEmail(email) ==
  LET s == IF Truthy(email) THEN email.s ELSE <<>>
      n == Len(s)
  IN  \E a \in 2..n : \E d \in (a + 2)..(n - 2) :
        /\ s[a] = "@"
        /\ AllIn(s, 1, a - 1, EmailLocalChar)
        /\ AllIn(s, a + 1, d - 1, EmailDomainChar)
        /\ s[d] = "."
        /\ AllIn(s, d + 1, n, Letter)

\* .replace(/\W|^(?=\d)/g, '_'): every non-word character becomes '_', and
\* the empty match in front of a leading digit inserts a '_' there
ReplaceNonWord(s) ==
  LET body == [i \in 1..Len(s) |-> IF s[i] \in WordChar THEN s[i] ELSE "_"]
  IN  IF s # <<>> /\ s[1] \in Digit THEN <<"_">> \o body ELSE body

\* .replace(/^_+|_+$/g, '')
StripUnderscores(s) == StripBoth(s, {"_"})

\* normalizeColumnName with the two replacements in the other order
normalizeColumnNameStripFirst(name) ==
  LET r == ReplaceNonWord(StripUnderscores(Trim(name)))
  IN  IF r = <<>> THEN <<"c","o","l">> ELSE r

normalizeColumnName(name) ==
  LET r == StripUnderscores(ReplaceNonWord(Trim(name)))
  IN  IF r = <<>> THEN <<"c","o","l">> ELSE r

\* Properties every plain object inherits from Object.prototype whose names
\* survive normalizeColumnName; ctx = {} has them although they are no columns
ObjectPrototypeKeys ==
  { <<"c","o","n","s","t","r","u","c","t","o","r">>,
    <<"t","o","S","t","r","i","n","g">>,
    <<"v","a","l","u","e","O","f">>,
    <<"h","a","s","O","w","n","P","r","o","p","e","r","t","y">>,
    <<"i","s","P","r","o","t","o","t","y","p","e","O","f">>,
    <<"p","r","o","p","e","r","t","y","I","s","E","n","u","m","e","r","a","b","l","e">>,
    <<"t","o","L","o","c","a","l","e","S","t","r","i","n","g">> }

\* String(f) of a built-in function named name
NativeFunction(name) ==
  [t |-> "function",
   s |-> <<"f","u","n","c","t","i","o","n"," ">> \o name
           \o <<"(",")"," ","{"," ","[","n","a","t","i","v","e"," ","c","o","d","e","]"," ","}">>]

\* ctx[key] on the plain object ctx
CtxLookup(ctx, key) ==
  IF GetProp(ctx, key) # JsUndefined THEN GetProp(ctx, key)
  ELSE IF key \in ObjectPrototypeKeys THEN NativeFunction(IF key = <<"c","o","n","s","t","r","u","c","t","o","r">> THEN <<"O","b","j","e","c","t">> ELSE key)
  ELSE JsUndefined

\* The index of the first character at or after k that is not in [\w\s.-]
\* (Len(s) + 1 when there is none).
PlaceholderRun(s, k) ==
  SetMin({x \in k..(Len(s) + 1) : x = Len(s) + 1 \/ s[x] \notin PlaceholderChar})

\* The end (index of the second '}') of a match of
\* /{{\s*([\w\s.-]+?)\s*}}/ that starts at index i, or 0 when none does.
MatchEnd(s, i) ==
  IF i + 1 <= Len(s) /\ s[i] = "{" /\ s[i + 1] = "{"
    THEN LET k == IF i + 2 <= Len(s) THEN PlaceholderRun(s, i + 2) ELSE i + 2
         IN  IF k > i + 2 /\ k + 1 <= Len(s) /\ s[k] = "}" /\ s[k + 1] = "}"
               THEN k + 1
               ELSE 0
    ELSE 0

\* c in lower case
LowerOf(c) ==
  LET up  == <<"A","B","C","D","E","F","G","H","I","J","K","L","M",
               "N","O","P","Q","R","S","T","U","V","W","X","Y","Z">>
      low == <<"a","b","c","d","e","f","g","h","i","j","k","l","m",
               "n","o","p","q","r","s","t","u","v","w","x","y","z">>
      hit == {i \in 1..Len(up) : up[i] = c}
  IN  IF hit = {} THEN c ELSE low[CHOOSE i \in hit : TRUE]

\* s.toLowerCase()
ToLowerCase(s) == [i \in 1..Len(s) |-> LowerOf(s[i])]

\* Substitute that compares the keys in lower case
SubstituteFoldCase(m, p1, ctx) ==
  LET key  == ToLowerCase(normalizeColumnName(Trim(p1)))
      hits == {i \in 1..Len(ctx) : ToLowerCase(ctx[i][1]) = key}
      v    == IF hits = {} THEN JsUndefined ELSE ctx[SetMax(hits)][2]
  IN  IF v.t \notin {"null", "undefined"} THEN v.s ELSE m

\* Substitute with the test ctx[key] ? String(ctx[key]) : m
SubstituteTruthy(m, p1, ctx) ==
  LET v == CtxLookup(ctx, normalizeColumnName(Trim(p1)))
  IN  IF Truthy(v) THEN v.s ELSE m

\* (m, p1) => { const key = normalizeColumnName(p1.trim());
\*              return ctx[key] != null ? String(ctx[key]) : m; }
Substitute(m, p1, ctx) ==
  LET v == CtxLookup(ctx, normalizeColumnName(Trim(p1)))
  IN  IF v.t \notin {"null", "undefined"} THEN v.s ELSE m

\* x lies inside a match that starts before x
InsideMatch(s, x) == \E i \in 1..(x - 1) : MatchEnd(s, i) # 0 /\ x <= MatchEnd(s, i)

\* What index x of s contributes to tmpl.replace(/{{\s*([\w\s.-]+?)\s*}}/g, ...):
\* the replacement when a match starts at x, nothing when x is inside a
\* match, the character itself otherwise.  (A match holds no brace between
\* its delimiters, so no match starts inside another and the left-to-right
\* scan takes every match.)
Piece(s, x, ctx) ==
  IF MatchEnd(s, x) # 0
    THEN Substitute(SubSeq(s, x, MatchEnd(s, x)), SubSeq(s, x + 2, MatchEnd(s, x) - 2), ctx)
  ELSE IF InsideMatch(s, x) THEN <<>>
  ELSE <<s[x]>>

RECURSIVE ConcatPieces(_, _, _)
ConcatPieces(s, n, ctx) ==
  IF n = 0 THEN <<>> ELSE ConcatPieces(s, n - 1, ctx) \o Piece(s, n, ctx)

\* processTemplate that renders its own output once more
processTemplateRescan(tmpl, ctx) ==
  LET once == ConcatPieces(tmpl, Len(tmpl), ctx)
  IN  ConcatPieces(once, Len(once), ctx)

\* templates reach the job store as JSON strings
processTemplate(tmpl, ctx) == ConcatPieces(tmpl, Len(tmpl), ctx)

\* const ctx = {}; for (const [k, v] of Object.entries(recipient)) ctx[normalizeColumnName(k)] = v
\* (kept as the list of assignments; a lookup takes the last one for its key)
BuildContext(recipient) ==
  [i \in 1..Len(recipient) |-> <<normalizeColumnName(recipient[i][1]), recipient[i][2]>>]

\* ------------------------------------------------------------------------
\* Literals of the worker
\* ------------------------------------------------------------------------
K_Email == <<"E","m","a","i","l">>

K_email == <<"e","m","a","i","l">>

MissingEmailText == <<"(","m","i","s","s","i","n","g",")">>

InvalidEmailText == <<"I","n","v","a","l","i","d"," ","e","m","a","i","l">>

NotAvailableText == <<"N","/","A">>

InitializingText == <<"I","n","i","t","i","a","l","i","z","i","n","g",".",".",".">>

MissingKeyText ==
  <<"M","i","s","s","i","n","g"," ","S","M","T","P","2","G","O","_","A","P","I","_","K","E","Y">>

ErrorPrefix == <<"S","M","T","P","2","G","O"," ","E","r","r","o","r"," ">>

\* the cut of a recorded error message
ErrorSliceLen == 180

\* txt.slice(0,120)
RawSliceLen == 120

\* interval * 1000
MsPerSecond == 1000

\* recipients.length > 1000
MaxBulkRecipients == 1000

\* fields.interval || '4'
DefaultIntervalField == <<"4">>

\* Math.min(Math.max(..., 1), 20)
MinInterval == 1

MaxInterval == 20

\* env.DEFAULT_SENDER_EMAIL and env.DEFAULT_SENDER_NAME of the deployment
DefaultSenderEmail == <<"s","@","x",".","i","o">>

DefaultSenderName == <<"P","r","o">>

\* ------------------------------------------------------------------------
\* Bounds and input pools
\* ------------------------------------------------------------------------
\* longest recipient list handed to init
MaxRecipients == 2

\* number of init calls in one behaviour
MaxInits == 2

\* length of the detail of the long transport error message
LongDetailLen == 170

\* names of the Durable Objects (env.JOB_STORE.idFromName)
JobIds == {"j1"}

NoJob == [none |-> TRUE]

NoAlarm == -1

K_EMAIL == <<"E","M","A","I","L">>

K_Name == <<"N","a","m","e">>

R_valid == << <<K_Email, Str(<<"a","@","x",".","i","o">>)>>, <<K_Name, Str(<<"A","l">>)>> >>

R_upper == << <<K_EMAIL, Str(<<"c","@","z",".","i","o">>)>> >>

R_bad == << <<K_email, Str(<<"n","o","t","-","a","n","-","e","m","a","i","l">>)>> >>

RecipientPool == {R_valid, R_upper, R_bad}

RECURSIVE ListsUpTo(_, _)
ListsUpTo(pool, n) ==
  IF n = 0 THEN {<<>>}
  ELSE LET shorter == ListsUpTo(pool, n - 1)
       IN  shorter \cup {Append(l, r) : l \in {x \in shorter : Len(x) = n - 1}, r \in pool}

RecipientLists == ListsUpTo(RecipientPool, MaxRecipients)

T_plain ==
  [subjectTmpl   |-> <<"H","i">>,
   htmlTmpl      |-> <<"H","e","l","l","o"," ","{","{","E","m","a","i","l","}","}">>,
   fromEmailTmpl |-> <<>>,
   fromNameTmpl  |-> <<>>]

T_from ==
  [subjectTmpl   |-> <<"H","i"," ","{","{"," ","N","a","m","e"," ","}","}">>,
   htmlTmpl      |-> <<"{","{","e","m","a","i","l","}","}">>,
   fromEmailTmpl |-> <<"f","@","x",".","i","o">>,
   fromNameTmpl  |-> <<"{","{","N","a","m","e","}","}">>]

TemplatePool == {T_plain, T_from}

\* a JSON number n, and null (what JSON.stringify makes of NaN)
Num(n) == [t |-> "number", n |-> n]

NullInterval == [t |-> "null", n |-> 0]

NaN == [t |-> "NaN", n |-> 0]

\* intervals of direct init calls on the Durable Object
IntervalPool == {Num(2)}

\* interval form fields of campaign-creation requests
IntervalFieldPool == {<<"0">>}

\* outcomes of the outbound request of fetchSMTP2GO
QuotaMessage == <<"q","u","o","t","a"," ","e","x","c","e","e","d","e","d">>

DispatchOutcomes ==
  { [ok |-> TRUE,  status |-> <<"2","0","0">>, message |-> <<>>, txt |-> <<>>],
    [ok |-> FALSE, status |-> <<"4","2","9">>, message |-> QuotaMessage, txt |-> <<>>],
    [ok |-> FALSE, status |-> <<"5","0","0">>, message |-> Repeat("x", LongDetailLen), txt |-> <<>>] }


\* ------------------------------------------------------------------------
\* State
\* ------------------------------------------------------------------------
VARIABLES
  env,      \* bindings of the deployment: whether SMTP2GO_API_KEY is set
  storage,  \* per Durable Object: the value under the key 'job', or NoJob
  alarm,    \* per Durable Object: milliseconds until its alarm is due, or NoAlarm
  pc,       \* per Durable Object: "idle", or "dispatching" while alarm() awaits the outbound fetch
  mem,      \* per Durable Object: the local variables of the alarm() that awaits
  outbox,   \* per Durable Object: the requests made to the email API since its last init
  inits,    \* number of init calls so far (also the logical Date.now() of 'created')
  resp,     \* the exchange completed by the step just taken: the HTTP response
            \* returned, the reply received from the email API ("email/send"),
            \* an alarm() invocation ("alarm"), or NoResp; req is what the
            \* request said about its recipients
  probe,    \* a helper function under evaluation on its own: its name, its
            \* argument and, once applied, its result (NoProbe in Spec)
  ui        \* the page of static/app.js: its variables bulkSendJobId and
            \* statusPollInterval (NoUi where no page is open)

vars == <<env, storage, alarm, pc, mem, outbox, inits, resp, probe, ui>>

NoProbe == [fn |-> "none", arg |-> <<>>, out |-> <<>>]

NoUi == [none |-> TRUE]

NoReq == [kind |-> "none", n |-> 0]

NoResp == [op |-> "none", id |-> "none", req |-> NoReq, status |-> 0, body |-> [none |-> TRUE]]

NoMem == [none |-> TRUE]

\* IntervalMs that takes the base granularity (this.intervalMs) for every interval
IntervalMsBase(interval) == MsPerSecond

\* job.interval * 1000 (null counts as 0)
IntervalMs(interval) == IF interval.t = "number" THEN interval.n * MsPerSecond ELSE 0

\* ------------------------------------------------------------------------
\* JobStore.init
\* ------------------------------------------------------------------------
NewJob(id, recipients, tmpl, interval, now) ==
  [id            |-> id,
   created       |-> now,
   total         |-> Len(recipients),
   recipients    |-> recipients,
   processed     |-> 0,
   success       |-> 0,
   failed        |-> 0,
   failures      |-> <<>>,
   interval      |-> interval,
   subjectTmpl   |-> tmpl.subjectTmpl,
   htmlTmpl      |-> tmpl.htmlTmpl,
   fromEmailTmpl |-> tmpl.fromEmailTmpl,
   fromNameTmpl  |-> tmpl.fromNameTmpl,
   in_progress   |-> TRUE,
   current       |-> Str(InitializingText),
   last_tick     |-> 0]

\* InitEffect that keeps the progress of a record it finds
InitEffectKeepProgress(j, recipients, tmpl, interval) ==
  /\ inits < MaxInits
  /\ inits' = inits + 1
  /\ storage' = [storage EXCEPT ![j] =
         IF storage[j] = NoJob THEN NewJob(j, recipients, tmpl, interval, inits + 1)
         ELSE [NewJob(j, recipients, tmpl, interval, inits + 1) EXCEPT
                 !.processed = Min(storage[j].processed, Len(recipients)),
                 !.success = Min(storage[j].processed, Len(recipients))]]
  /\ alarm' = [alarm EXCEPT ![j] = IntervalMs(interval)]
  /\ outbox' = [outbox EXCEPT ![j] = <<>>]
  /\ UNCHANGED <<ui, probe, env, pc, mem>>

\* InitEffect with one timer shared by all jobs: every alarm is set
InitEffectSharedTimer(j, recipients, tmpl, interval) ==
  /\ inits < MaxInits
  /\ inits' = inits + 1
  /\ storage' = [storage EXCEPT ![j] = NewJob(j, recipients, tmpl, interval, inits + 1)]
  /\ alarm' = [k \in DOMAIN alarm |-> IntervalMs(interval)]
  /\ outbox' = [outbox EXCEPT ![j] = <<>>]
  /\ UNCHANGED <<ui, probe, env, pc, mem>>

\* storage.put('job', job); storage.setAlarm(Date.now() + interval * 1000)
InitEffect(j, recipients, tmpl, interval) ==
  /\ inits < MaxInits
  /\ inits' = inits + 1
  /\ storage' = [storage EXCEPT ![j] = NewJob(j, recipients, tmpl, interval, inits + 1)]
  /\ alarm' = [alarm EXCEPT ![j] = IntervalMs(interval)]
  /\ outbox' = [outbox EXCEPT ![j] = <<>>]
  /\ UNCHANGED <<ui, probe, env, pc, mem>>

\* POST https://do/job/init on the Durable Object named j
JobStoreInitWith(j, recipients, tmpl, interval) ==
  /\ InitEffect(j, recipients, tmpl, interval)
  /\ resp' = [op |-> "init", id |-> j,
              req |-> [kind |-> "array", n |-> Len(recipients), recipients |-> recipients,
                       tmpl |-> tmpl, interval |-> interval],
              status |-> 200, body |-> [ok |-> TRUE]]

JobStoreInit(j) ==
  \E recipients \in RecipientLists, tmpl \in TemplatePool, interval \in IntervalPool :
    JobStoreInitWith(j, recipients, tmpl, interval)

\* ------------------------------------------------------------------------
\* bulkCreate (POST /api/send-bulk)
\* ------------------------------------------------------------------------
RECURSIVE DigitsValue(_, _)
DigitsValue(s, acc) ==
  IF s # <<>> /\ Head(s) \in Digit
    THEN DigitsValue(Tail(s), acc * 10 + (CHOOSE d \in 0..9 : ToString(d) = Head(s)))
    ELSE acc

\* parseInt(s, 10)
ParseInt(s) ==
  LET t    == TrimLeft(s)
      neg  == t # <<>> /\ Head(t) = "-"
      body == IF t # <<>> /\ Head(t) \in {"-", "+"} THEN Tail(t) ELSE t
  IN  IF body = <<>> \/ Head(body) \notin Digit THEN NaN
      ELSE Num(IF neg THEN 0 - DigitsValue(body, 0) ELSE DigitsValue(body, 0))

\* Math.min(Math.max(parseInt(fields.interval || '4', 10), 1), 20)
ClampInterval(field) ==
  LET x == ParseInt(IF field = <<>> THEN DefaultIntervalField ELSE field)
  IN  IF x.t = "NaN" THEN NaN ELSE Num(Min(Max(x.n, MinInterval), MaxInterval))

\* what JSON.parse(JSON.stringify(x)) makes of the interval
JsonRoundTrip(x) == IF x.t = "NaN" THEN NullInterval ELSE x

\* the recipients form field: absent, not JSON, JSON but no array, or an array
RecipientFields ==
  {[kind |-> k, list |-> <<>>] : k \in {"missing", "badjson", "notarray"}}
    \cup {[kind |-> "array", list |-> l] : l \in RecipientLists}

\* ValidateRecipients without the test for an empty array
ValidateRecipientsNoEmpty(field) ==
  IF field.kind = "missing" THEN "Missing recipients JSON."
  ELSE IF field.kind = "badjson" THEN "Invalid recipients JSON."
  ELSE IF field.kind = "notarray" THEN "Recipients must be a non-empty array."
  ELSE IF Len(field.list) > MaxBulkRecipients THEN "Max 1000 recipients."
  ELSE ""

\* the checks of bulkCreate on the recipients field: the error text, or "" when it passes
ValidateRecipients(field) ==
  IF field.kind = "missing" THEN "Missing recipients JSON."
  ELSE IF field.kind = "badjson" THEN "Invalid recipients JSON."
  ELSE IF field.kind = "notarray" \/ Len(field.list) = 0 THEN "Recipients must be a non-empty array."
  ELSE IF Len(field.list) > MaxBulkRecipients THEN "Max 1000 recipients."
  ELSE ""

BadRequest(field, text) ==
  [op |-> "send-bulk", id |-> "none", req |-> [kind |-> field.kind, n |-> Len(field.list)],
   status |-> 400, body |-> [success |-> FALSE, error |-> text]]

\* bulkCreate on a request whose interval form field is intervalField
\* (<<>> when the field is absent or empty)
bulkCreateWith(intervalField) ==
  \E field \in RecipientFields, tmpl \in TemplatePool :
    IF ValidateRecipients(field) # ""
      THEN /\ resp' = BadRequest(field, ValidateRecipients(field))
           /\ UNCHANGED <<ui, probe, env, storage, alarm, pc, mem, outbox, inits>>
      ELSE \E j \in JobIds :
             \* crypto.randomUUID(): an id no Durable Object was created for
             /\ storage[j] = NoJob
             /\ InitEffect(j, field.list, tmpl, JsonRoundTrip(ClampInterval(intervalField)))
             /\ resp' = [op |-> "send-bulk", id |-> j,
                         req |-> [kind |-> field.kind, n |-> Len(field.list)], status |-> 200,
                         body |-> [success |-> TRUE, job_id |-> j,
                                   total_emails |-> Len(field.list),
                                   interval |-> ClampInterval(intervalField)]]

bulkCreate == \E intervalField \in IntervalFieldPool : bulkCreateWith(intervalField)

\* ------------------------------------------------------------------------
\* JobStore.status and bulkStatus (GET /api/bulk-status/:id)
\* ------------------------------------------------------------------------
\* the k for which the double (k/100)*100 is below k
FloatProductBelow == {29, 57, 58}

\* Math.floor((processed / total) * 100) in IEEE-754 double arithmetic
FloorPercent(processed, total) ==
  LET q == (processed * 100) \div total
  IN  IF (processed * 100) % total = 0 /\ q \in FloatProductBelow THEN q - 1 ELSE q

\* job.total ? Math.floor((job.processed / job.total) * 100) : 0
completion_percentage(job) ==
  IF job.total # 0 THEN FloorPercent(job.processed, job.total) ELSE 0

\* StatusView without the delete of copy.recipients
StatusViewWithRecipients(job) ==
  [f \in DOMAIN job \cup {"completion_percentage"} |->
     IF f = "completion_percentage" THEN completion_percentage(job) ELSE job[f]]

\* const copy = { ...job }; delete copy.recipients; copy.completion_percentage = ...
StatusView(job) ==
  [f \in (DOMAIN job \ {"recipients"}) \cup {"completion_percentage"} |->
     IF f = "completion_percentage" THEN completion_percentage(job) ELSE job[f]]

\* StatusResponse that answers 200 with an empty view when there is no record
StatusResponseLenient(j) ==
  [op |-> "status", id |-> j, req |-> NoReq, status |-> 200,
   body |-> IF storage[j] = NoJob THEN [error |-> "Missing"] ELSE StatusView(storage[j])]

StatusResponse(j) ==
  IF storage[j] = NoJob
    THEN [op |-> "status", id |-> j, req |-> NoReq, status |-> 404, body |-> [error |-> "Missing"]]
    ELSE [op |-> "status", id |-> j, req |-> NoReq, status |-> 200, body |-> StatusView(storage[j])]

\* JobStoreStatus that writes the record back with the flag recomputed from the cursor
JobStoreStatusRepair(j) ==
  /\ resp' = StatusResponse(j)
  /\ storage' = [storage EXCEPT ![j] =
                   IF storage[j] = NoJob THEN NoJob
                   ELSE [storage[j] EXCEPT !.in_progress = (storage[j].processed <= storage[j].total)]]
  /\ UNCHANGED <<ui, probe, env, alarm, pc, mem, outbox, inits>>

\* GET https://do/job/status on the Durable Object named j
JobStoreStatus(j) ==
  /\ resp' = StatusResponse(j)
  /\ UNCHANGED <<ui, probe, env, storage, alarm, pc, mem, outbox, inits>>

bulkStatus(j) ==
  /\ resp' = IF StatusResponse(j).status = 404
               THEN [op |-> "bulk-status", id |-> j, req |-> NoReq, status |-> 404,
                     body |-> [success |-> FALSE, error |-> "Job not found"]]
               ELSE [op |-> "bulk-status", id |-> j, req |-> NoReq, status |-> 200,
                     body |-> [success |-> TRUE, status |-> StatusResponse(j).body]]
  /\ UNCHANGED <<ui, probe, env, storage, alarm, pc, mem, outbox, inits>>


\* ------------------------------------------------------------------------
\* fetchSMTP2GO
\* ------------------------------------------------------------------------
\* `SMTP2GO Error ${res.status}: ${body.message || txt.slice(0,120)}`
TransportErrorText(outcome) ==
  ErrorPrefix \o outcome.status \o <<":", " ">>
    \o (IF outcome.message # <<>> THEN outcome.message ELSE Slice(outcome.txt, 0, RawSliceLen))

\* ------------------------------------------------------------------------
\* JobStore.alarm
\* ------------------------------------------------------------------------
\* FailureText without the cut
FailureTextUncut(message) == message

\* e.message.slice(0,180)
FailureText(message) == Slice(message, 0, ErrorSliceLen)

\* recipient?.Email || recipient?.email || ''
ResolveEmail(recipient) ==
  OrElse(OrElse(GetProp(recipient, K_Email), GetProp(recipient, K_email)), Str(<<>>))

\* the payload built from the templates of the job for one recipient
BuildPayload(job, recipient, emailAddress) ==
  LET ctx         == BuildContext(recipient)
      subject     == processTemplate(job.subjectTmpl, ctx)
      html_body   == processTemplate(job.htmlTmpl, ctx)
      senderEmail == IF job.fromEmailTmpl # <<>>
                       THEN processTemplate(job.fromEmailTmpl, ctx) ELSE DefaultSenderEmail
      senderName  == IF job.fromNameTmpl # <<>>
                       THEN processTemplate(job.fromNameTmpl, ctx) ELSE DefaultSenderName
      senderVal   == IF senderName # <<>>
                       THEN senderName \o <<" ", "<">> \o senderEmail \o <<">">>
                       ELSE senderEmail
  IN  [to |-> <<emailAddress.s>>, sender |-> senderVal, subject |-> subject, html_body |-> html_body]

\* RecordFailure with the increment of job.failed left out
RecordFailureNoCount(job, idx, email, error) ==
  [job EXCEPT !.failures = Append(@, [i |-> idx, email |-> email, error |-> error])]

\* The address resolution, the validity test and the payload, tabulated once
\* over the recipients and templates that init can store.
RecipientFacts ==
  { [recipient    |-> r,
     emailAddress |-> ResolveEmail(r),
     valid        |-> isValidEmail(ResolveEmail(r))] : r \in RecipientPool }

FactOf(recipient) == CHOOSE f \in RecipientFacts : f.recipient = recipient

Payloads ==
  { [templates |-> t, recipient |-> r, payload |-> BuildPayload(t, r, ResolveEmail(r))] :
      t \in TemplatePool, r \in RecipientPool }

TemplatesOf(job) ==
  [subjectTmpl   |-> job.subjectTmpl,
   htmlTmpl      |-> job.htmlTmpl,
   fromEmailTmpl |-> job.fromEmailTmpl,
   fromNameTmpl  |-> job.fromNameTmpl]

PayloadOf(job, recipient) ==
  (CHOOSE p \in Payloads : p.templates = TemplatesOf(job) /\ p.recipient = recipient).payload

\* RecordFailure that also steps the cursor back, so that the next tick
\* takes the same recipient again
RecordFailureRetry(job, idx, email, error) ==
  [job EXCEPT !.failed = @ + 1,
              !.failures = Append(@, [i |-> idx, email |-> email, error |-> error]),
              !.processed = @ - 1]

\* RecordFailure that puts the new entry at the front of the list
RecordFailureUnshift(job, idx, email, error) ==
  [job EXCEPT !.failed = @ + 1,
              !.failures = <<[i |-> idx, email |-> email, error |-> error]>> \o @]

\* job.failed += 1; job.failures.push({ i, email, error })
RecordFailure(job, idx, email, error) ==
  [job EXCEPT !.failed = @ + 1,
              !.failures = Append(@, [i |-> idx, email |-> email, error |-> error])]

\* job.success += 1
RecordSuccess(job) == [job EXCEPT !.success = @ + 1]

\* Advance that leaves job.current as it was
AdvanceKeepCurrent(job, emailAddress) == [job EXCEPT !.processed = @ + 1]

\* Advance that also drops the recipient it has taken from the total
AdvanceRecount(job, emailAddress) ==
  [job EXCEPT !.processed = @ + 1,
              !.current = OrElse(emailAddress, Str(<<"N","/","A">>)),
              !.total = @ - 1]

\* job.processed += 1; job.current = emailAddress || 'N/A'
Advance(job, emailAddress) ==
  [job EXCEPT !.processed = @ + 1,
              !.current = OrElse(emailAddress, Str(NotAvailableText))]

\* PersistAndRearm with the next alarm set for now: setAlarm(Date.now())
PersistAndRearmAtOnce(j, job, armed) ==
  /\ storage' = [storage EXCEPT ![j] = job]
  /\ alarm' = [armed EXCEPT ![j] = IF job.processed < job.total THEN 0 ELSE @]

\* PersistAndRearm without the re-arming
PersistNoRearm(j, job, armed) ==
  /\ storage' = [storage EXCEPT ![j] = job]
  /\ alarm' = armed

\* storage.put('job', job); if (job.processed < job.total) storage.setAlarm(...)
PersistAndRearm(j, job, armed) ==
  /\ storage' = [storage EXCEPT ![j] = job]
  /\ alarm' = [armed EXCEPT ![j] =
                 IF job.processed < job.total THEN IntervalMs(job.interval) ELSE @]

\* AwaitDispatch with the cursor advanced and stored ahead of the outbound
\* request
AwaitDispatchAdvanceFirst(j, job, idx, recipient, emailAddress, consumed) ==
  /\ outbox' = [outbox EXCEPT ![j] =
         Append(@, [i |-> idx, payload |-> PayloadOf(job, recipient)])]
  /\ pc' = [pc EXCEPT ![j] = "dispatching"]
  /\ mem' = [mem EXCEPT ![j] = [job |-> job, idx |-> idx, emailAddress |-> emailAddress]]
  /\ alarm' = consumed
  /\ storage' = [storage EXCEPT ![j] = Advance(job, emailAddress)]

\* AwaitDispatch with the next alarm set ahead of the outbound request
AwaitDispatchRearmFirst(j, job, idx, recipient, emailAddress, consumed) ==
  /\ outbox' = [outbox EXCEPT ![j] =
         Append(@, [i |-> idx, payload |-> PayloadOf(job, recipient)])]
  /\ pc' = [pc EXCEPT ![j] = "dispatching"]
  /\ mem' = [mem EXCEPT ![j] = [job |-> job, idx |-> idx, emailAddress |-> emailAddress]]
  /\ alarm' = [consumed EXCEPT ![j] = IntervalMs(job.interval)]
  /\ UNCHANGED storage

\* AwaitDispatch with the failure counted and stored ahead of the outbound
\* request, to be corrected once the request has resolved
AwaitDispatchEarlyWrite(j, job, idx, recipient, emailAddress, consumed) ==
  /\ outbox' = [outbox EXCEPT ![j] =
         Append(@, [i |-> idx, payload |-> PayloadOf(job, recipient)])]
  /\ pc' = [pc EXCEPT ![j] = "dispatching"]
  /\ mem' = [mem EXCEPT ![j] = [job |-> job, idx |-> idx, emailAddress |-> emailAddress]]
  /\ alarm' = consumed
  /\ storage' = [storage EXCEPT ![j] = [job EXCEPT !.failed = @ + 1]]

\* alarm() with a valid address and an API key: the templates are rendered,
\* the request to the email API is sent, and alarm() awaits its response with
\* the job it loaded, untouched, in its local variables
AwaitDispatch(j, job, idx, recipient, emailAddress, consumed) ==
  /\ outbox' = [outbox EXCEPT ![j] =
         Append(@, [i |-> idx, payload |-> PayloadOf(job, recipient)])]
  /\ pc' = [pc EXCEPT ![j] = "dispatching"]
  /\ mem' = [mem EXCEPT ![j] = [job |-> job, idx |-> idx, emailAddress |-> emailAddress]]
  /\ alarm' = consumed
  /\ UNCHANGED storage

\* MissingKeyCaught without the catch: the exception leaves alarm()
MissingKeyThrown(j, job, idx, emailAddress, consumed) ==
  /\ alarm' = consumed
  /\ UNCHANGED <<storage, pc, mem, outbox>>

\* alarm() with a valid address and no API key: fetchSMTP2GO throws before
\* any request is made, the catch records the failure and the tick goes on
MissingKeyCaught(j, job, idx, emailAddress, consumed) ==
  /\ PersistAndRearm(j,
       Advance(RecordFailure(job, idx, emailAddress, FailureText(MissingKeyText)),
               emailAddress),
       consumed)
  /\ UNCHANGED <<pc, mem, outbox>>

\* NoOpTick that sets the alarm again at the base granularity (this.intervalMs)
NoOpTickPolling(j, consumed) ==
  /\ alarm' = [consumed EXCEPT ![j] = MsPerSecond]
  /\ UNCHANGED <<storage, pc, mem, outbox>>

\* if (!job || !job.in_progress) return;
NoOpTick(j, consumed) ==
  /\ alarm' = consumed
  /\ UNCHANGED <<storage, pc, mem, outbox>>

\* CompletionGuard that also clears the counters of the finished job
CompletionGuardReset(j, job, consumed) ==
  /\ storage' = [storage EXCEPT ![j] =
         [job EXCEPT !.in_progress = FALSE, !.processed = 0, !.success = 0, !.failed = 0]]
  /\ alarm' = consumed
  /\ UNCHANGED <<pc, mem, outbox>>

\* if (job.processed >= job.total) { job.in_progress = false; put; return; }
CompletionGuard(j, job, consumed) ==
  /\ storage' = [storage EXCEPT ![j] = [job EXCEPT !.in_progress = FALSE]]
  /\ alarm' = consumed
  /\ UNCHANGED <<pc, mem, outbox>>

\* Cursor that walks the list from its end
CursorFromEnd(job) == job.total - 1 - job.processed

\* const idx = job.processed
Cursor(job) == job.processed

\* alarm() of j runs up to its return, or up to the await of the outbound
\* fetch; consumed is the alarm state once this firing is taken off
AlarmHandler(j, consumed) ==
  /\ resp' = [op |-> "alarm", id |-> j, req |-> NoReq, status |-> 0, body |-> [none |-> TRUE]]
  /\ UNCHANGED <<ui, probe, env, inits>>
  /\ LET job == storage[j]
     IN  IF job = NoJob \/ ~job.in_progress
           THEN NoOpTick(j, consumed)
         ELSE IF job.processed >= job.total
           THEN CompletionGuard(j, job, consumed)
         ELSE LET idx          == Cursor(job)
                  recipient    == job.recipients[idx + 1]
                  emailAddress == FactOf(recipient).emailAddress
              IN  IF ~FactOf(recipient).valid
                    THEN /\ PersistAndRearm(j,
                              Advance(RecordFailure(job, idx,
                                        OrElse(emailAddress, Str(MissingEmailText)),
                                        InvalidEmailText), emailAddress),
                              consumed)
                         /\ UNCHANGED <<pc, mem, outbox>>
                  ELSE IF ~env.SMTP2GO_API_KEY
                    THEN MissingKeyCaught(j, job, idx, emailAddress, consumed)
                  ELSE AwaitDispatch(j, job, idx, recipient, emailAddress, consumed)

\* The alarm of j is due and no alarm() of j is running.
AlarmFire(j) ==
  /\ alarm[j] = 0
  /\ pc[j] = "idle"
  /\ AlarmHandler(j, [alarm EXCEPT ![j] = NoAlarm])

\* The platform delivers an alarm of j once more (alarms are delivered at
\* least once): alarm() runs although no alarm is pending.
StaleAlarm(j) ==
  /\ alarm[j] = NoAlarm
  /\ pc[j] = "idle"
  /\ AlarmHandler(j, alarm)

\* The outbound fetch of the alarm() of j resolves with outcome: alarm()
\* resumes after the await and runs to its end.
DispatchResolve(j) ==
  /\ pc[j] = "dispatching"
  /\ \E outcome \in DispatchOutcomes :
       LET m       == mem[j]
           settled == IF outcome.ok
                        THEN RecordSuccess(m.job)
                        ELSE RecordFailure(m.job, m.idx, m.emailAddress,
                               FailureText(TransportErrorText(outcome)))
       IN  /\ PersistAndRearm(j, Advance(settled, m.emailAddress), alarm)
           /\ resp' = [op |-> "email/send", id |-> j, req |-> NoReq, status |-> 0, body |-> outcome]
  /\ pc' = [pc EXCEPT ![j] = "idle"]
  /\ mem' = [mem EXCEPT ![j] = NoMem]
  /\ UNCHANGED <<ui, probe, env, outbox, inits>>

\* One second passes on every armed alarm that is not yet due.
TimePass ==
  /\ \E j \in DOMAIN alarm : alarm[j] > 0
  /\ alarm' = [j \in DOMAIN alarm |->
                 IF alarm[j] > 0 THEN Max(alarm[j] - MsPerSecond, 0) ELSE alarm[j]]
  /\ resp' = NoResp
  /\ UNCHANGED <<ui, probe, env, storage, pc, mem, outbox, inits>>

\* ------------------------------------------------------------------------
\* JobStore.alarm when storage.put rejects
\* ------------------------------------------------------------------------
PutFailed(j) ==
  [op |-> "put", id |-> j, req |-> NoReq, status |-> 500, body |-> [none |-> TRUE]]

\* PutFails with setAlarm called ahead of the put
PutFailsRearmFirst(j, job, armed) ==
  /\ storage' = storage
  /\ alarm' = [armed EXCEPT ![j] =
                 IF job.processed < job.total THEN IntervalMs(job.interval) ELSE @]

\* await storage.put('job', job) rejects: alarm() ends with that exception,
\* the statements after the put are not reached
PutFails(j, job, armed) ==
  /\ storage' = storage
  /\ alarm' = armed

\* the record alarm() is about to put when it makes no outbound request:
\* the completion guard, an invalid address, or fetchSMTP2GO without a key
UpdatedWithoutRequest(job) ==
  LET idx          == job.processed
      emailAddress == FactOf(job.recipients[idx + 1]).emailAddress
  IN  IF job.processed >= job.total THEN [job EXCEPT !.in_progress = FALSE]
      ELSE IF ~FactOf(job.recipients[idx + 1]).valid
        THEN Advance(RecordFailure(job, idx, OrElse(emailAddress, Str(MissingEmailText)),
                                   InvalidEmailText), emailAddress)
      ELSE Advance(RecordFailure(job, idx, emailAddress, FailureText(MissingKeyText)),
                   emailAddress)

\* alarm() of j runs without an outbound request up to its put, which rejects
AlarmFirePutFails(j) ==
  /\ alarm[j] = 0
  /\ pc[j] = "idle"
  /\ storage[j] # NoJob
  /\ storage[j].in_progress
  /\ IF storage[j].processed >= storage[j].total THEN TRUE
     ELSE \/ ~FactOf(storage[j].recipients[storage[j].processed + 1]).valid
          \/ ~env.SMTP2GO_API_KEY
  /\ PutFails(j, UpdatedWithoutRequest(storage[j]), [alarm EXCEPT ![j] = NoAlarm])
  /\ resp' = PutFailed(j)
  /\ UNCHANGED <<ui, probe, env, pc, mem, outbox, inits>>

\* the outbound fetch of the alarm() of j resolves and the put that follows rejects
DispatchResolvePutFails(j) ==
  /\ pc[j] = "dispatching"
  /\ \E outcome \in DispatchOutcomes :
       LET m       == mem[j]
           settled == IF outcome.ok
                        THEN RecordSuccess(m.job)
                        ELSE RecordFailure(m.job, m.idx, m.emailAddress,
                               FailureText(TransportErrorText(outcome)))
       IN  PutFails(j, Advance(settled, m.emailAddress), alarm)
  /\ resp' = PutFailed(j)
  /\ pc' = [pc EXCEPT ![j] = "idle"]
  /\ mem' = [mem EXCEPT ![j] = NoMem]
  /\ UNCHANGED <<ui, probe, env, outbox, inits>>

\* ------------------------------------------------------------------------
\* JobStore.alarm when the process is lost while alarm() awaits
\* ------------------------------------------------------------------------
\* how often the tick on one recipient index is interrupted
MaxInterrupts == 1

\* the requests made so far for the recipient index idx of j
RequestsFor(j, idx) == {k \in 1..Len(outbox[j]) : outbox[j][k].i = idx}

\* The process that runs alarm() of j is lost while alarm() awaits the
\* outbound fetch: the local variables are gone, nothing after the await
\* runs (no put, no setAlarm), the request already sent stays sent.  The
\* alarm whose handler did not complete is due again, unless an init has
\* set the alarm in the meantime.
Interrupt(j) ==
  /\ pc[j] = "dispatching"
  /\ Cardinality(RequestsFor(j, mem[j].idx)) <= MaxInterrupts
  /\ pc' = [pc EXCEPT ![j] = "idle"]
  /\ mem' = [mem EXCEPT ![j] = NoMem]
  /\ alarm' = [alarm EXCEPT ![j] = IF @ = NoAlarm THEN 0 ELSE @]
  /\ resp' = [op |-> "interrupt", id |-> j, req |-> NoReq, status |-> 0, body |-> [none |-> TRUE]]
  /\ UNCHANGED <<ui, probe, env, storage, outbox, inits>>

\* ------------------------------------------------------------------------
\* Specification
\* ------------------------------------------------------------------------
Init ==
  /\ env \in [SMTP2GO_API_KEY : BOOLEAN]
  /\ storage = [j \in JobIds |-> NoJob]
  /\ alarm = [j \in JobIds |-> NoAlarm]
  /\ pc = [j \in JobIds |-> "idle"]
  /\ mem = [j \in JobIds |-> NoMem]
  /\ outbox = [j \in JobIds |-> <<>>]
  /\ inits = 0
  /\ resp = NoResp
  /\ probe = NoProbe
  /\ ui = NoUi

Next ==
  \/ \E j \in JobIds : JobStoreInit(j)
  \/ bulkCreate
  \/ \E j \in JobIds : JobStoreStatus(j)
  \/ \E j \in JobIds : bulkStatus(j)
  \/ \E j \in JobIds : AlarmFire(j)
  \/ \E j \in JobIds : DispatchResolve(j)
  \/ TimePass

Spec == Init /\ [][Next]_vars

\* The scheduler fires due alarms, outbound fetches resolve, time passes.
Fairness ==
  /\ \A j \in JobIds : WF_vars(AlarmFire(j))
  /\ \A j \in JobIds : WF_vars(DispatchResolve(j))
  /\ WF_vars(TimePass)

\* The steps that change a job; status reads and rejected requests change
\* nothing but resp and are left to Spec.
FairNext ==
  \/ \E j \in JobIds : JobStoreInit(j)
  \/ bulkCreate
  \/ \E j \in JobIds : AlarmFire(j)
  \/ \E j \in JobIds : DispatchResolve(j)
  \/ TimePass

FairSpec == Init /\ [][FairNext]_vars /\ Fairness

\* The steps that change a job, with a storage whose writes may reject
\* during a tick.
FaultNext ==
  \/ \E j \in JobIds : JobStoreInit(j)
  \/ bulkCreate
  \/ \E j \in JobIds : AlarmFire(j)
  \/ \E j \in JobIds : DispatchResolve(j)
  \/ \E j \in JobIds : AlarmFirePutFails(j)
  \/ \E j \in JobIds : DispatchResolvePutFails(j)
  \/ TimePass

FaultSpec == Init /\ [][FaultNext]_vars

\* The steps that change a job, on a platform that may lose the process
\* during a tick; the scheduler fires due alarms, fetches resolve, time passes.
CrashNext ==
  \/ \E j \in JobIds : JobStoreInit(j)
  \/ \E j \in JobIds : AlarmFire(j)
  \/ \E j \in JobIds : DispatchResolve(j)
  \/ \E j \in JobIds : Interrupt(j)
  \/ TimePass

CrashSpec == Init /\ [][CrashNext]_vars /\ Fairness

\* The steps that change a job and the status reads, on a platform that may
\* deliver an alarm more than once.
StaleNext ==
  \/ \E j \in JobIds : JobStoreInit(j)
  \/ \E j \in JobIds : JobStoreStatus(j)
  \/ \E j \in JobIds : AlarmFire(j)
  \/ \E j \in JobIds : StaleAlarm(j)
  \/ \E j \in JobIds : DispatchResolve(j)
  \/ TimePass

StaleSpec == Init /\ [][StaleNext]_vars

\* ------------------------------------------------------------------------
\* Two jobs side by side: one Durable Object per job id
\* ------------------------------------------------------------------------
\* two names handed to env.JOB_STORE.idFromName
PairIds == {"j1", "j2"}

PairLists == {<<R_valid>>, <<R_bad, R_valid>>}

PairInit ==
  /\ env \in [SMTP2GO_API_KEY : BOOLEAN]
  /\ storage = [j \in PairIds |-> NoJob]
  /\ alarm = [j \in PairIds |-> NoAlarm]
  /\ pc = [j \in PairIds |-> "idle"]
  /\ mem = [j \in PairIds |-> NoMem]
  /\ outbox = [j \in PairIds |-> <<>>]
  /\ inits = 0
  /\ resp = NoResp
  /\ probe = NoProbe
  /\ ui = NoUi

PairNext ==
  \/ \E j \in PairIds : \E recipients \in PairLists, interval \in IntervalPool :
       JobStoreInitWith(j, recipients, T_from, interval)
  \/ \E j \in PairIds : JobStoreStatus(j)
  \/ \E j \in PairIds : AlarmFire(j)
  \/ \E j \in PairIds : DispatchResolve(j)
  \/ TimePass

PairSpec == PairInit /\ [][PairNext]_vars

\* ------------------------------------------------------------------------
\* Campaign creation over the interval fields a form can carry
\* ------------------------------------------------------------------------
\* absent, zero, negative, in range, the upper limit, oversized, non-numeric,
\* digits followed by text, digits after a blank
IntervalFieldsWide ==
  { <<>>, <<"0">>, <<"-","5">>, <<"7">>, <<"2","0">>, <<"2","1">>, <<"9","9">>,
    <<"x">>, <<"4","s">>, <<" ","3">> }

bulkCreateAnyInterval == \E intervalField \in IntervalFieldsWide : bulkCreateWith(intervalField)

CreateSpec == Init /\ [][bulkCreateAnyInterval]_vars

\* No request has reached the worker and no Durable Object holds anything.
Quiet ==
  /\ env = [SMTP2GO_API_KEY |-> TRUE]
  /\ storage = [j \in JobIds |-> NoJob]
  /\ alarm = [j \in JobIds |-> NoAlarm]
  /\ pc = [j \in JobIds |-> "idle"]
  /\ mem = [j \in JobIds |-> NoMem]
  /\ outbox = [j \in JobIds |-> <<>>]
  /\ inits = 0
  /\ resp = NoResp
  /\ ui = NoUi

\* ------------------------------------------------------------------------
\* The completion percentage of the status view, on its own
\* ------------------------------------------------------------------------
\* largest total of the counters handed to completion_percentage
MaxTotal == 100

\* the counters of a job record: 0 <= processed <= total
CounterPairs ==
  {c \in [processed : 0..MaxTotal, total : 0..MaxTotal] : c.processed <= c.total}

PercentInit ==
  /\ Quiet
  /\ probe \in {[fn |-> "completion_percentage", arg |-> c, out |-> <<>>] : c \in CounterPairs}

PercentApply ==
  /\ probe.fn = "completion_percentage" /\ probe.out = <<>>
  /\ probe' = [probe EXCEPT !.out = <<completion_percentage(probe.arg)>>]
  /\ UNCHANGED <<env, storage, alarm, pc, mem, outbox, inits, resp, ui>>

PercentSpec == PercentInit /\ [][PercentApply]_vars

\* ------------------------------------------------------------------------
\* processTemplate on its own
\* ------------------------------------------------------------------------
\* longest template, in pieces
MaxPieces == 3

\* a piece of template text; key is the name a placeholder piece asks for
\* (<<>> for text that is no placeholder)
Tok(text, key) == [text |-> text, key |-> key]

TemplatePieces ==
  { Tok(<<"H","i"," ">>, <<>>),
    Tok(<<" ","{","x","}"," ">>, <<>>),
    Tok(<<"{","{","a","!","}","}">>, <<>>),
    Tok(<<"{","{","}","}">>, <<>>),
    Tok(<<"{","{","N","a","m","e","}","}">>, <<"N","a","m","e">>),
    Tok(<<"{","{"," ","m","i","s","s","i","n","g"," ","}","}">>, <<"m","i","s","s","i","n","g">>),
    Tok(<<"{","{","c","o","n","s","t","r","u","c","t","o","r","}","}">>,
        <<"c","o","n","s","t","r","u","c","t","o","r">>) }

RECURSIVE Flatten(_)
Flatten(pieces) == IF pieces = <<>> THEN <<>> ELSE Head(pieces).text \o Flatten(Tail(pieces))

\* recipients of the rendering: no column at all, the two usual columns, and
\* columns named like the odd pieces, one of them null
R_none == <<>>

R_odd ==
  << <<<<"x">>, Str(<<"X">>)>>, <<<<"a">>, Str(<<"A">>)>>,
     <<<<"c","o","l">>, Str(<<"C">>)>>, <<K_Name, JsNull>> >>

RenderRecipients == {R_none, R_valid, R_odd}

RenderInit ==
  /\ Quiet
  /\ probe \in {[fn |-> "processTemplate",
                  arg |-> [pieces |-> ps, tmpl |-> Flatten(ps), recipient |-> r],
                  out |-> <<>>] :
                   ps \in ListsUpTo(TemplatePieces, MaxPieces), r \in RenderRecipients}

\* processTemplate(tmpl, ctx) with the ctx that alarm() builds from the recipient
RenderApply ==
  /\ probe.fn = "processTemplate" /\ probe.out = <<>>
  /\ probe' = [probe EXCEPT !.out =
                  <<processTemplate(probe.arg.tmpl, BuildContext(probe.arg.recipient))>>]
  /\ UNCHANGED <<env, storage, alarm, pc, mem, outbox, inits, resp, ui>>

RenderSpec == RenderInit /\ [][RenderApply]_vars

\* ------------------------------------------------------------------------
\* normalizeColumnName on its own
\* ------------------------------------------------------------------------
\* longest column name
MaxKeyLen == 4

KeyAlphabet == {"a", "B", "1", "_", " ", "-"}

ColumnNames == ListsUpTo(KeyAlphabet, MaxKeyLen)

NormalizeInit ==
  /\ Quiet
  /\ probe \in {[fn |-> "normalizeColumnName", arg |-> k, out |-> <<>>] : k \in ColumnNames}

\* normalizeColumnName applied to the name, then to its own result
NormalizeApply ==
  /\ probe.fn = "normalizeColumnName" /\ Len(probe.out) < 2
  /\ probe' = [probe EXCEPT !.out =
                  Append(@, normalizeColumnName(IF @ = <<>> THEN probe.arg ELSE @[1]))]
  /\ UNCHANGED <<env, storage, alarm, pc, mem, outbox, inits, resp, ui>>

NormalizeSpec == NormalizeInit /\ [][NormalizeApply]_vars

\* ------------------------------------------------------------------------
\* One placeholder rendered against the columns of one recipient
\* ------------------------------------------------------------------------
\* column names as an uploaded list carries them, and as a template may
\* write them
ColumnNamePool ==
  { <<"a"," ","b">>, <<"a","_","b">>, <<"A"," ","b">>, <<"x",".","y">>,
    <<" ","n">>, <<"1","s","t">> }

\* scalar values of a column: text, empty text, 0, false, null, and text
\* that reads like a placeholder
ColumnValuePool ==
  { Str(<<"v">>), Str(<<>>), JsNum0, JsFalse, JsNull,
    Str(<<"{","{","x",".","y","}","}">>) }

Columns == {<<n, v>> : n \in ColumnNamePool, v \in ColumnValuePool}

\* recipients of one column, and of two columns with different names
ColumnRecipients ==
  {<<c>> : c \in Columns}
    \cup {r \in Columns \X Columns : r[1][1] # r[2][1]}

\* whitespace between the braces and the name
PadPool == {<<>>, <<" ">>}

\* the template: one placeholder between two characters of plain text
OnePlaceholder(name, pad) ==
  <<"<", "{", "{">> \o pad \o name \o pad \o <<"}", "}", ">">>

ColumnInit ==
  /\ Quiet
  /\ probe \in {[fn |-> "placeholder",
                  arg |-> [name |-> n, pad |-> p, recipient |-> r, tmpl |-> OnePlaceholder(n, p)],
                  out |-> <<>>] :
                   n \in ColumnNamePool, p \in PadPool, r \in ColumnRecipients}

\* processTemplate(tmpl, ctx) with the ctx that alarm() builds from the recipient
ColumnApply ==
  /\ probe.fn = "placeholder" /\ probe.out = <<>>
  /\ probe' = [probe EXCEPT !.out =
                  <<processTemplate(probe.arg.tmpl, BuildContext(probe.arg.recipient))>>]
  /\ UNCHANGED <<env, storage, alarm, pc, mem, outbox, inits, resp, ui>>

ColumnSpec == ColumnInit /\ [][ColumnApply]_vars

\* ------------------------------------------------------------------------
\* The page (static/app.js) that starts a campaign and polls its status
\* ------------------------------------------------------------------------
\* null in bulkSendJobId and in statusPollInterval
NullId == "null"

\* a property the object received does not have
UndefinedId == "undefined"

\* let bulkSendJobId = null; let statusPollInterval = null;
\* (statusPollInterval holds the job id its timer polls, for the timer id)
PageLoaded == [bulkSendJobId |-> NullId, statusPollInterval |-> NullId]

\* handleBulkSendCompletion(status): stopPolling(); ...; bulkSendJobId = null
handleBulkSendCompletion(page) ==
  [bulkSendJobId |-> NullId, statusPollInterval |-> NullId]

\* stopPolling(): clearInterval(statusPollInterval); statusPollInterval = null
stopPolling(page) == [page EXCEPT !.statusPollInterval = NullId]

\* handleSendBulkEmail up to its await: POST /api/send-bulk, sent while no
\* campaign is active (the button is disabled from the click on)
handleSendBulkEmail ==
  /\ ui.bulkSendJobId = NullId
  /\ bulkCreate

\* handleSendBulkEmail after its await, on the response returned by the
\* step before: bulkSendJobId = data.job_id; startPolling(bulkSendJobId)
handleSendBulkEmailResponse ==
  /\ resp.op = "send-bulk"
  /\ ui' = IF resp.status = 200 /\ resp.body.success
             THEN [bulkSendJobId |-> resp.body.job_id, statusPollInterval |-> resp.body.job_id]
             ELSE [ui EXCEPT !.bulkSendJobId = NullId]
  /\ resp' = NoResp
  /\ UNCHANGED <<env, storage, alarm, pc, mem, outbox, inits, probe>>

\* the timer of startPolling fires: pollStatus(jobId) up to its await of
\* fetch(`/api/bulk-status/${jobId}`)
pollStatus(jobId) ==
  /\ ui.statusPollInterval = jobId
  /\ IF jobId # ui.bulkSendJobId
       THEN /\ ui' = stopPolling(ui)
            /\ resp' = NoResp
            /\ UNCHANGED <<env, storage, alarm, pc, mem, outbox, inits, probe>>
       ELSE bulkStatus(jobId)

\* data.status.job_id
StatusJobId(status) ==
  IF "job_id" \in DOMAIN status THEN status.job_id ELSE UndefinedId

\* pollStatus(jobId) after its await, on the response returned by the step
\* before
pollStatusResponse(jobId) ==
  /\ resp.op = "bulk-status" /\ resp.id = jobId
  /\ ui' = IF resp.status # 200
             THEN IF resp.status = 404 THEN handleBulkSendCompletion(ui) ELSE ui
           ELSE IF ~resp.body.success THEN ui
           ELSE IF StatusJobId(resp.body.status) # ui.bulkSendJobId THEN ui
           ELSE IF "error" \in DOMAIN resp.body.status THEN handleBulkSendCompletion(ui)
           ELSE IF ~resp.body.status.in_progress THEN handleBulkSendCompletion(ui)
           ELSE ui
  /\ resp' = NoResp
  /\ UNCHANGED <<env, storage, alarm, pc, mem, outbox, inits, probe>>

PollInit ==
  /\ env \in [SMTP2GO_API_KEY : BOOLEAN]
  /\ storage = [j \in JobIds |-> NoJob]
  /\ alarm = [j \in JobIds |-> NoAlarm]
  /\ pc = [j \in JobIds |-> "idle"]
  /\ mem = [j \in JobIds |-> NoMem]
  /\ outbox = [j \in JobIds |-> <<>>]
  /\ inits = 0
  /\ resp = NoResp
  /\ probe = NoProbe
  /\ ui = PageLoaded

PollNext ==
  \/ handleSendBulkEmail
  \/ handleSendBulkEmailResponse
  \/ \E j \in JobIds : pollStatus(j)
  \/ \E j \in JobIds : pollStatusResponse(j)
  \/ \E j \in JobIds : AlarmFire(j)
  \/ \E j \in JobIds : DispatchResolve(j)
  \/ TimePass

\* The scheduler fires due alarms, fetches resolve, time passes, the interval
\* timer of the page keeps firing and its requests are answered.
PollFairness ==
  /\ Fairness
  /\ WF_vars(handleSendBulkEmailResponse)
  /\ \A j \in JobIds : WF_vars(pollStatus(j))
  /\ \A j \in JobIds : WF_vars(pollStatusResponse(j))

PollSpec == PollInit /\ [][PollNext]_vars /\ PollFairness

TypeOK ==
  /\ \A j \in JobIds : alarm[j] \in Int /\ pc[j] \in {"idle", "dispatching"}
  /\ inits \in 0..MaxInits


\* ------------------------------------------------------------------------
\* Properties
\* ------------------------------------------------------------------------
Stored(j) == storage[j] # NoJob

\* C1: in every stored snapshot of a job, and in every view a status read
\* returns, processed = success + failed and processed <= total.
C1_CountsConsistent ==
  /\ \A j \in JobIds :
       Stored(j) =>
         /\ storage[j].processed = storage[j].success + storage[j].failed
         /\ storage[j].processed <= storage[j].total
  /\ (resp.op = "status" /\ resp.status = 200) =>
         /\ resp.body.processed = resp.body.success + resp.body.failed
         /\ resp.body.processed <= resp.body.total

\* a status read shows a finished job with a success and a failure
C1_Witness ==
  /\ resp.op = "status" /\ resp.status = 200
  /\ resp.body.processed = 2 /\ resp.body.success = 1 /\ resp.body.failed = 1
  /\ resp.body.total = 2

\* C2: the tick that makes processed equal to total leaves the stored record
\* with in_progress = FALSE.
C2_LastTickCompletes ==
  [][\A j \in JobIds :
       (/\ resp'.op \in {"alarm", "email/send"} /\ resp'.id = j
        /\ Stored(j) /\ storage'[j] # storage[j]
        /\ storage'[j].total > 0
        /\ storage'[j].processed = storage'[j].total)
       => ~storage'[j].in_progress]_vars


\* C3: every initialized job eventually reaches the Completed state
\* (in_progress = FALSE in the record a status read projects).
C3_EventuallyCompleted ==
  \A j \in JobIds : Stored(j) ~> (Stored(j) /\ ~storage[j].in_progress)

\* C4: whatever the per-recipient outcomes, a job with a non-empty recipient
\* list eventually reaches processed = total.
C4_ReachesTotal ==
  \A j \in JobIds :
    (Stored(j) /\ storage[j].total > 0)
      ~> (Stored(j) /\ storage[j].processed = storage[j].total)

\* a two-recipient job has been run to its end with one outcome of each kind
C4_Witness ==
  \E j \in JobIds :
    /\ Stored(j) /\ storage[j].total = 2 /\ storage[j].processed = 2
    /\ storage[j].success = 1 /\ Len(storage[j].failures) = 1
    /\ pc[j] = "idle" /\ alarm[j] = NoAlarm

\* C5 as stated: once the stored in_progress flag is false it is never true
\* again, whatever operation follows.
C5_NeverReverses ==
  [][\A j \in JobIds :
       (Stored(j) /\ ~storage[j].in_progress)
         => (storage'[j] # NoJob /\ ~storage'[j].in_progress)]_vars

\* C5 amended: once the stored in_progress flag is false, no tick and no
\* status read changes the record; only an init on that id, which overwrites
\* the record, sets the flag again.
C5_OnlyInitRestarts ==
  [][\A j \in JobIds :
       (Stored(j) /\ ~storage[j].in_progress /\ inits' = inits)
         => storage'[j] = storage[j]]_vars

\* a status read returns a completed job
C5_Witness ==
  /\ resp.op = "status" /\ resp.status = 200
  /\ ~resp.body.in_progress
  /\ Stored(resp.id) /\ ~storage[resp.id].in_progress


\* the text of a transport error as the email API's reply determines it
C6_FullText(reply) ==
  <<"S","M","T","P","2","G","O"," ","E","r","r","o","r"," ">> \o reply.status
    \o <<":", " ">> \o reply.message

\* C6: a dispatch failure is absorbed by the tick: failed grows by one,
\* success does not change, one failure entry is appended with the index, the
\* email and the error text cut to at most 180 characters, processed grows
\* by one, and the alarm is re-armed when recipients remain.
C6_FailureAbsorbed ==
  [][\A j \in JobIds :
       (resp'.op = "email/send" /\ resp'.id = j /\ ~resp'.body.ok)
         => LET before == mem[j].job
                after  == storage'[j]
                entry  == after.failures[Len(after.failures)]
                full   == C6_FullText(resp'.body)
            IN  /\ pc'[j] = "idle"
                /\ after.failed = before.failed + 1
                /\ after.success = before.success
                /\ after.failures = Append(before.failures, entry)
                /\ entry.i = mem[j].idx
                /\ entry.email = mem[j].emailAddress
                /\ Len(entry.error) <= 180
                /\ entry.error = SubSeq(full, 1, Len(entry.error))
                /\ (Len(full) <= 180 => entry.error = full)
                /\ after.processed = before.processed + 1
                /\ (after.processed < after.total
                      => alarm'[j] = after.interval.n * 1000)]_vars

\* every dispatch of a two-recipient job failed, one error text was cut
C6_Witness ==
  \E j \in JobIds :
    /\ Stored(j) /\ storage[j].total = 2 /\ storage[j].processed = 2
    /\ storage[j].failed = 2 /\ storage[j].success = 0
    /\ Len(storage[j].failures[1].error) = 180
    /\ Len(storage[j].failures[2].error) < 180
    /\ Len(outbox[j]) = 2

\* the recipient resolves to no address, or to a text without "@"
C7_NoUsableEmail(recipient) ==
  LET e == ResolveEmail(recipient)
  IN  ~Truthy(e) \/ \A i \in 1..Len(e.s) : e.s[i] # "@"

\* C7: when the recipient at the cursor has no email or a malformed one, the
\* tick makes no dispatch call, increments failed, appends a failure with
\* that index, the email value or "(missing)" and the error "Invalid email",
\* and advances processed by one.
C7_InvalidEmailRecorded ==
  [][\A j \in JobIds :
       (/\ resp'.op = "alarm" /\ resp'.id = j
        /\ Stored(j) /\ storage[j].in_progress
        /\ storage[j].processed < storage[j].total
        /\ C7_NoUsableEmail(storage[j].recipients[storage[j].processed + 1]))
         => LET before == storage[j]
                after  == storage'[j]
                e      == ResolveEmail(before.recipients[before.processed + 1])
            IN  /\ outbox' = outbox
                /\ pc'[j] = "idle"
                /\ after.failed = before.failed + 1
                /\ after.success = before.success
                /\ after.failures = Append(before.failures,
                     [i     |-> before.processed,
                      email |-> IF Truthy(e) THEN e
                                ELSE Str(<<"(","m","i","s","s","i","n","g",")">>),
                      error |-> <<"I","n","v","a","l","i","d"," ","e","m","a","i","l">>])
                /\ after.processed = before.processed + 1]_vars

\* a job whose two recipients were recorded as invalid, one missing and one
\* malformed, without any dispatch
C7_Witness ==
  \E j \in JobIds :
    /\ Stored(j) /\ storage[j].processed = 2 /\ storage[j].failed = 2
    /\ storage[j].failures[1].email = Str(<<"(","m","i","s","s","i","n","g",")">>)
    /\ storage[j].failures[2].email = Str(<<"n","o","t","-","a","n","-","e","m","a","i","l">>)
    /\ outbox[j] = <<>>
    /\ env.SMTP2GO_API_KEY

\* C8 as stated: init with an empty recipient list stores no record, so no
\* stored record has an empty recipient list.
C8_EmptyInitRejected ==
  \A j \in JobIds : Stored(j) => storage[j].total >= 1

\* C8 amended: the campaign-creation endpoint bulkCreate rejects an empty
\* recipient list with status 400 before it calls the job store (no record
\* is stored, no timer is armed); JobStore.init itself does not validate.
C8_EmptyCampaignRejected ==
  [][(resp'.op = "send-bulk" /\ resp'.req.kind = "array" /\ resp'.req.n = 0)
       => /\ resp'.status = 400
          /\ storage' = storage
          /\ alarm' = alarm
          /\ inits' = inits]_vars

\* a campaign with an empty recipient array has been rejected
C8_Witness ==
  /\ resp.op = "send-bulk" /\ resp.req.kind = "array" /\ resp.req.n = 0
  /\ resp.status = 400

\* C9: a successful init stores a record with processed = success = failed
\* = 0, no failures, in_progress = TRUE and total = the number of recipients,
\* arms the timer for interval seconds from now, and dispatches nothing.
C9_InitStoresFreshJob ==
  [][\A j \in JobIds :
       (resp'.op \in {"init", "send-bulk"} /\ resp'.status = 200 /\ resp'.id = j)
         => LET job == storage'[j]
            IN  /\ job.processed = 0 /\ job.success = 0 /\ job.failed = 0
                /\ job.failures = <<>>
                /\ job.in_progress
                /\ job.total = resp'.req.n
                /\ Len(job.recipients) = resp'.req.n
                /\ alarm'[j] = job.interval.n * 1000
                /\ outbox'[j] = <<>>
                /\ pc' = pc /\ mem' = mem]_vars

\* a two-recipient job has just been initialized with interval 2
C9_Witness ==
  /\ resp.op = "init" /\ resp.status = 200 /\ resp.req.n = 2
  /\ Stored(resp.id) /\ storage[resp.id].interval.n = 2
  /\ alarm[resp.id] = 2000

\* C10: status on a job id without a record answers 404, at the job store
\* and at /api/bulk-status, creates no record and arms no timer.
C10_StatusNotFound ==
  [][\A j \in JobIds :
       (resp'.op \in {"status", "bulk-status"} /\ resp'.id = j /\ ~Stored(j))
         => /\ resp'.status = 404
            /\ storage'[j] = NoJob
            /\ alarm' = alarm]_vars

\* /api/bulk-status has answered 404 for an id without a record
C10_Witness ==
  /\ resp.op = "bulk-status" /\ resp.status = 404
  /\ ~Stored(resp.id) /\ alarm[resp.id] = NoAlarm

\* the view carried by a successful status response of either endpoint
C11_View(r) == IF r.op = "status" THEN r.body ELSE r.body.status

\* C11: status is read-only and projects the stored record: the view has no
\* recipient list, its id, total, processed, success, failed, failures,
\* in_progress and current equal the stored values, and the stored record
\* (recipients included) and the armed timer are unchanged by the call.
C11_StatusProjects ==
  [][\A j \in JobIds :
       (resp'.op \in {"status", "bulk-status"} /\ resp'.id = j /\ Stored(j))
         => /\ resp'.status = 200
            /\ "recipients" \notin DOMAIN C11_View(resp')
            /\ \A f \in {"id", "total", "processed", "success", "failed",
                          "failures", "in_progress", "current"} :
                 C11_View(resp')[f] = storage[j][f]
            /\ storage'[j] = storage[j]
            /\ storage'[j].recipients = storage[j].recipients
            /\ alarm'[j] = alarm[j]]_vars

\* a status read of a running job with recipients, a recorded failure and an
\* armed timer
C11_Witness ==
  /\ resp.op = "status" /\ resp.status = 200
  /\ Len(storage[resp.id].recipients) = 2
  /\ Len(resp.body.failures) = 1 /\ resp.body.processed = 1
  /\ resp.body.in_progress
  /\ alarm[resp.id] > 0

\* C12: for every total >= 1 and processed in 0..total the completion
\* percentage is the exact floor of processed/total * 100 (never above 100,
\* 100 exactly when processed = total), and it is 0 when total = 0.
C12_ExactFloor ==
  (probe.fn = "completion_percentage" /\ probe.out # <<>>)
    => LET p   == probe.arg.processed
           t   == probe.arg.total
           pct == probe.out[1]
       IN  IF t = 0 THEN pct = 0
           ELSE /\ pct * t <= 100 * p
                /\ 100 * p < (pct + 1) * t
                /\ pct <= 100
                /\ (pct = 100 <=> p = t)

\* the timer of j as a tick step finds it once its own firing is consumed
C13_TimerLeft(j) == IF pc[j] = "dispatching" THEN alarm[j] ELSE -1

\* the record a tick step of j started from
C13_Loaded(j) == IF pc[j] = "dispatching" THEN mem[j].job ELSE storage[j]

\* C13: in every tick the updated record is persisted before the next timer
\* is armed: a tick step that arms a timer has stored the advanced record,
\* and a tick whose persistence write fails stores nothing and arms no timer.
C13_PersistBeforeRearm ==
  [][\A j \in JobIds :
       (resp'.id = j /\ resp'.op \in {"alarm", "email/send", "put"})
         => /\ (resp'.op = "put")
                 => /\ storage'[j] = storage[j]
                    /\ alarm'[j] = C13_TimerLeft(j)
            /\ (alarm'[j] # C13_TimerLeft(j))
                 => /\ resp'.op # "put"
                    /\ storage'[j].processed = C13_Loaded(j).processed + 1
                    /\ storage'[j].processed < storage'[j].total
                    /\ alarm'[j] = storage'[j].interval.n * 1000]_vars

\* a tick on a job with recipients left has failed at its write: the record
\* still shows the old cursor and no timer is armed
C13_Witness ==
  /\ resp.op = "put"
  /\ Stored(resp.id)
  /\ storage[resp.id].in_progress
  /\ storage[resp.id].processed = 1 /\ storage[resp.id].total = 2
  /\ alarm[resp.id] = -1 /\ pc[resp.id] = "idle"

\* the record of j and the tick in flight, if any, belong to the job of the
\* latest init, whose calls outbox[j] lists
C14_OneRun(j) ==
  /\ Stored(j)
  /\ storage[j].created = inits
  /\ pc[j] = "dispatching" => mem[j].job.created = inits

\* the number of recipients with a valid email among the first n of the job
C14_ValidAmong(job, n) ==
  Cardinality({k \in 1..n : isValidEmail(ResolveEmail(job.recipients[k]))})

\* the calls made to the dispatch client for the job of j: the requests sent,
\* or, without an API key, the calls that threw before any request
C14_Calls(j) ==
  IF env.SMTP2GO_API_KEY THEN Len(outbox[j])
  ELSE Cardinality({k \in 1..Len(storage[j].failures) :
                      storage[j].failures[k].error # <<"I","n","v","a","l","i","d"," ","e","m","a","i","l">>})

\* C14: a tick makes at most one dispatch call and a failed dispatch is never
\* retried: during one run of a job no recipient index is dispatched twice,
\* and the number of dispatch calls is the number of recipients with a valid
\* email handled so far (all of them once processed = total).
C14_OneDispatchEach ==
  \A j \in JobIds :
    C14_OneRun(j) =>
      /\ \A a, b \in 1..Len(outbox[j]) : a # b => outbox[j][a].i # outbox[j][b].i
      /\ \A a \in 1..Len(outbox[j]) : outbox[j][a].i <= storage[j].processed
      /\ C14_Calls(j) = C14_ValidAmong(storage[j], storage[j].processed)
                          + (IF pc[j] = "dispatching" THEN 1 ELSE 0)

\* a job of two valid recipients has run to its end with both dispatches
\* failed: two requests were made, none repeated
C14_Witness ==
  \E j \in JobIds :
    /\ C14_OneRun(j) /\ pc[j] = "idle"
    /\ storage[j].total = 2 /\ storage[j].processed = 2
    /\ storage[j].failed = 2
    /\ Len(outbox[j]) = 2
    /\ outbox[j][1].i = 0 /\ outbox[j][2].i = 1

C16_HandoffInBounds ==
  \A j \in JobIds :
    Stored(j) =>
      /\ storage[j].total \in 1..1000
      /\ Len(storage[j].recipients) = storage[j].total
      /\ storage[j].interval.t = "number"
      /\ storage[j].interval.n \in 1..20

\* what a piece of template text becomes: a placeholder whose key is a
\* column of the recipient with a value becomes that value, every other
\* piece, a placeholder with a missing key among them, stays as written
C17_PieceOut(piece, recipient) ==
  LET own == {i \in 1..Len(recipient) : recipient[i][1] = piece.key}
      v   == recipient[CHOOSE i \in own : \A k \in own : k <= i][2]
  IN  IF piece.key = <<>> \/ own = {} THEN piece.text
      ELSE IF v.t = "null" THEN piece.text
      ELSE v.s

RECURSIVE C17_Expected(_, _)
C17_Expected(pieces, recipient) ==
  IF pieces = <<>> THEN <<>>
  ELSE C17_PieceOut(Head(pieces), recipient) \o C17_Expected(Tail(pieces), recipient)

\* C17: render leaves a placeholder verbatim whenever its normalized key is
\* not a key of the context: in the output every placeholder with a missing
\* key stands as written (and the others carry their value).
C17_MissingKeptVerbatim ==
  (probe.fn = "processTemplate" /\ probe.out # <<>>)
    => probe.out[1] = C17_Expected(probe.arg.pieces, probe.arg.recipient)

\* letters, digits, underscore, space, hyphen and dot
C18_KeyChar == Letter \cup Digit \cup {"_", " ", "\t", "\n", "-", "."}

\* s contains a placeholder: two opening braces, a non-empty run of key
\* characters and blanks, two closing braces
C18_HasPlaceholder(s) ==
  \E i, k \in 1..Len(s) :
    /\ i + 2 < k /\ k + 1 <= Len(s)
    /\ s[i] = "{" /\ s[i + 1] = "{"
    /\ s[k] = "}" /\ s[k + 1] = "}"
    /\ \A x \in (i + 2)..(k - 1) : s[x] \in C18_KeyChar

\* C18: render(T, ctx) = T for every template T that contains no placeholder,
\* for any context.
C18_NoPlaceholderUnchanged ==
  (probe.fn = "processTemplate" /\ probe.out # <<>> /\ ~C18_HasPlaceholder(probe.arg.tmpl))
    => probe.out[1] = probe.arg.tmpl

\* a template of braces that form no placeholder has been rendered, unchanged,
\* with a context that has the keys a, x and col
C18_Witness ==
  /\ probe.fn = "processTemplate"
  /\ probe.arg.tmpl = <<"{","{","a","!","}","}"," ","{","x","}"," ","{","{","}","}">>
  /\ probe.arg.recipient = R_odd
  /\ probe.out = <<probe.arg.tmpl>>

\* C19: key normalization is idempotent: normalize(normalize(k)) =
\* normalize(k) for every string k (empty, only punctuation or underscores,
\* starting with a digit).
C19_NormalizeIdempotent ==
  (probe.fn = "normalizeColumnName" /\ Len(probe.out) = 2)
    => probe.out[2] = probe.out[1]

\* a name that starts with a digit and holds punctuation has been normalized
\* twice
C19_Witness ==
  /\ probe.fn = "normalizeColumnName"
  /\ probe.arg = <<"1", "-", " ", "a">>
  /\ probe.out = << <<"1", "_", "_", "a">>, <<"1", "_", "_", "a">> >>

\* the view carried by a successful status response of either endpoint
C20_View(r) == IF r.op = "status" THEN r.body ELSE r.body.status

\* C20: a status read that runs while a tick is in flight returns the record
\* as it was before that tick (or as a later init wrote it), never a mixture:
\* every snapshot is the stored record, the stored record is written only by
\* init and by a tick that has run to its end, and its counters agree.
C20_NoTornRead ==
  [][\A j \in JobIds :
       /\ (resp'.op \in {"status", "bulk-status"} /\ resp'.id = j /\ Stored(j))
            => /\ \A f \in DOMAIN storage[j] \ {"recipients"} :
                    C20_View(resp')[f] = storage[j][f]
               /\ C20_View(resp').processed
                    = C20_View(resp').success + C20_View(resp').failed
               /\ Len(C20_View(resp').failures) = C20_View(resp').failed
               /\ pc[j] = "dispatching"
                    => \/ storage[j] = mem[j].job
                       \/ /\ storage[j].created > mem[j].job.created
                          /\ storage[j].processed = 0
       /\ (storage'[j] # storage[j])
            => \/ resp'.op \in {"init", "send-bulk"}
               \/ resp'.op \in {"alarm", "email/send"} /\ resp'.id = j /\ pc'[j] = "idle"]_vars

\* a status read has run while the second tick of a job awaits its request:
\* it shows the record the first tick wrote
C20_Witness ==
  /\ resp.op = "status" /\ resp.status = 200
  /\ pc[resp.id] = "dispatching" /\ mem[resp.id].idx = 1
  /\ resp.body.processed = 1 /\ resp.body.total = 2
  /\ resp.body.current # Str(<<"I","n","i","t","i","a","l","i","z","i","n","g",".",".",".">>)

\* a request for the recipient at the cursor of j was sent by a tick that
\* did not reach its put: the tick was interrupted
C21_Interrupted(j) ==
  /\ pc[j] = "idle" /\ Stored(j)
  /\ outbox[j] # <<>>
  /\ outbox[j][Len(outbox[j])].i = storage[j].processed

C22_PacedByInterval ==
  [][\A j \in JobIds :
       /\ (/\ resp'.op \in {"alarm", "email/send"} /\ resp'.id = j
           /\ pc'[j] = "idle" /\ storage'[j] # storage[j]
           /\ storage'[j].processed < storage'[j].total)
            => alarm'[j] = storage'[j].interval.n * 1000
       /\ (alarm'[j] # alarm[j] /\ alarm'[j] # -1)
            => \/ /\ resp'.op = "none"
                  /\ alarm[j] > 0 /\ alarm'[j] = alarm[j] - 1000
                  /\ storage' = storage /\ outbox' = outbox
               \/ /\ resp'.op \in {"init", "send-bulk", "alarm", "email/send"}
                  /\ resp'.id = j
                  /\ storage'[j].interval.n >= 1
                  /\ alarm'[j] = storage'[j].interval.n * 1000
       /\ (Len(outbox'[j]) > Len(outbox[j]))
            => /\ resp'.op = "alarm" /\ resp'.id = j
               /\ alarm[j] = 0 /\ pc[j] = "idle"]_vars

\* the second request of a job with interval 2 is in flight, the first one
\* having been resolved and recorded
C22_Witness ==
  \E j \in JobIds :
    /\ pc[j] = "dispatching" /\ mem[j].idx = 1
    /\ Stored(j) /\ storage[j] = mem[j].job
    /\ storage[j].interval.n = 2
    /\ storage[j].success = 1
    /\ Len(outbox[j]) = 2

\* what belongs to the Durable Object named k
C23_Own(k) == <<storage[k], alarm[k], pc[k], mem[k], outbox[k]>>

\* C23: jobs are independent: init, tick and status on one job id leave the
\* record, the timer and the tick in flight of every other job id as they
\* were, their result is determined by the job's own record, and whether a
\* tick of a job can run depends on that job's own timer and tick alone,
\* under every interleaving of operations on two jobs.
C23_JobsIndependent ==
  /\ [][\A j \in PairIds : \A k \in PairIds \ {j} :
          /\ (resp'.id = j) => C23_Own(k)' = C23_Own(k)
          /\ (resp'.id = "none") => storage' = storage /\ pc' = pc /\ outbox' = outbox
          /\ (resp'.op = "status" /\ resp'.id = j /\ storage[j] # NoJob)
               => resp'.body = StatusView(storage[j])
          /\ (resp'.op = "init" /\ resp'.id = j)
               => /\ storage'[j].id = j /\ storage'[j].processed = 0
                  /\ alarm'[j] = storage'[j].interval.n * 1000
          /\ (resp'.op = "alarm" /\ resp'.id = j /\ storage'[j] # storage[j])
               => storage'[j] = UpdatedWithoutRequest(storage[j])
          /\ (resp'.op = "email/send" /\ resp'.id = j)
               => /\ storage'[j].id = j
                  /\ storage'[j].recipients = mem[j].job.recipients
                  /\ storage'[j].processed = mem[j].job.processed + 1]_vars
  /\ [](\A j \in PairIds :
          /\ ENABLED AlarmFire(j) <=> (alarm[j] = 0 /\ pc[j] = "idle")
          /\ ENABLED DispatchResolve(j) <=> (pc[j] = "dispatching"))

\* a status read of one job while a tick of the other awaits its request,
\* both jobs part-way through different recipient lists
C23_Witness ==
  /\ resp.op = "status" /\ resp.id = "j2" /\ resp.status = 200
  /\ resp.body.processed = 1 /\ resp.body.total = 2
  /\ pc["j1"] = "dispatching" /\ pc["j2"] = "idle"
  /\ storage["j1"].total = 1 /\ storage["j1"].processed = 0
  /\ alarm["j2"] > 0

\* k is a spelling of "email" in any case
C24_IsEmailKey(k) ==
  /\ Len(k) = 5
  /\ k[1] \in {"e", "E"} /\ k[2] \in {"m", "M"} /\ k[3] \in {"a", "A"}
  /\ k[4] \in {"i", "I"} /\ k[5] \in {"l", "L"}

\* the valid addresses the recipient stores under a spelling of "email"
C24_Addresses(recipient) ==
  {recipient[i][2].s : i \in {x \in 1..Len(recipient) :
      C24_IsEmailKey(recipient[x][1]) /\ isValidEmail(recipient[x][2])}}

\* C24: a recipient whose valid address is stored under any case spelling of
\* the key "email" (Email, email, EMAIL, eMail) is dispatched to and is not
\* recorded as an "Invalid email" failure.
C24_CaseInsensitiveEmailKey ==
  [][\A j \in JobIds :
       (/\ resp'.op = "alarm" /\ resp'.id = j
        /\ Stored(j) /\ storage[j].in_progress
        /\ storage[j].processed < storage[j].total
        /\ env.SMTP2GO_API_KEY
        /\ C24_Addresses(storage[j].recipients[storage[j].processed + 1]) # {})
         => /\ storage'[j].failures = storage[j].failures
            /\ Len(outbox'[j]) = Len(outbox[j]) + 1
            /\ outbox'[j][Len(outbox'[j])].payload.to[1]
                 \in C24_Addresses(storage[j].recipients[storage[j].processed + 1])]_vars

\* C25: init on a job id that already has a record replaces it: when the
\* call returns the stored record holds the recipients and templates of the
\* call, processed = success = failed = 0, no failures and in_progress =
\* TRUE, whatever the earlier record was (running, finished, a tick in
\* flight), and the timer of the job is set for the new interval.
C25_ReinitReplaces ==
  [][\A j \in JobIds :
       (resp'.op = "init" /\ resp'.id = j /\ Stored(j))
         => LET job == storage'[j]
                req == resp'.req
            IN  /\ resp'.status = 200
                /\ job.id = j
                /\ job.recipients = req.recipients
                /\ job.total = Len(req.recipients)
                /\ job.subjectTmpl = req.tmpl.subjectTmpl
                /\ job.htmlTmpl = req.tmpl.htmlTmpl
                /\ job.fromEmailTmpl = req.tmpl.fromEmailTmpl
                /\ job.fromNameTmpl = req.tmpl.fromNameTmpl
                /\ job.interval = req.interval
                /\ job.processed = 0 /\ job.success = 0 /\ job.failed = 0
                /\ job.failures = <<>>
                /\ job.in_progress
                /\ job.created > storage[j].created
                /\ alarm'[j] = req.interval.n * 1000]_vars

\* an init has just replaced the record of a job whose second tick is in
\* flight, with another recipient list and another interval
C25_Witness ==
  /\ resp.op = "init" /\ resp.status = 200
  /\ pc[resp.id] = "dispatching"
  /\ mem[resp.id].job.processed = 1 /\ mem[resp.id].job.failed = 1
  /\ mem[resp.id].job.interval.n = 1
  /\ storage[resp.id].recipients # mem[resp.id].job.recipients
  /\ storage[resp.id].processed = 0 /\ storage[resp.id].interval.n = 2
  /\ alarm[resp.id] = 2000

\* C26: without transport credentials a tick on a recipient with a valid
\* email makes no outbound request, ends normally, and records the recipient
\* as a failed dispatch: failed grows by one, success does not, one failure
\* entry with the index, the email and the error text is appended, and
\* processed grows by one.
C26_MissingKeyRecorded ==
  [][\A j \in JobIds :
       (/\ resp'.op \in {"alarm", "put"} /\ resp'.id = j
        /\ ~env.SMTP2GO_API_KEY
        /\ Stored(j) /\ storage[j].in_progress
        /\ storage[j].processed < storage[j].total
        /\ isValidEmail(ResolveEmail(storage[j].recipients[storage[j].processed + 1])))
         => LET before == storage[j]
                after  == storage'[j]
            IN  /\ resp'.op = "alarm"
                /\ outbox' = outbox
                /\ pc'[j] = "idle"
                /\ after.failed = before.failed + 1
                /\ after.success = before.success
                /\ after.failures = Append(before.failures,
                     [i     |-> before.processed,
                      email |-> ResolveEmail(before.recipients[before.processed + 1]),
                      error |-> <<"M","i","s","s","i","n","g"," ","S","M","T","P","2","G","O",
                                  "_","A","P","I","_","K","E","Y">>])
                /\ after.processed = before.processed + 1
                /\ after.in_progress
                /\ (after.processed < after.total
                      => alarm'[j] = after.interval.n * 1000)]_vars

\* a job of two valid recipients has run to its end without an API key: two
\* failures, no request
C26_Witness ==
  \E j \in JobIds :
    /\ ~env.SMTP2GO_API_KEY
    /\ Stored(j) /\ pc[j] = "idle"
    /\ storage[j].total = 2 /\ storage[j].processed = 2
    /\ storage[j].failed = 2 /\ storage[j].success = 0
    /\ Len(storage[j].failures) = 2
    /\ storage[j].failures[2].email = Str(<<"a","@","x",".","i","o">>)
    /\ outbox[j] = <<>>

\* C27: a tick that finds no record, or a record with in_progress = FALSE,
\* is a no-op: it writes nothing to storage, sends no request, leaves no
\* tick in flight and arms no timer.
C27_GuardedTickNoOp ==
  [][\A j \in JobIds :
       (/\ resp'.op = "alarm" /\ resp'.id = j
        /\ (~Stored(j) \/ ~storage[j].in_progress))
         => /\ storage' = storage
            /\ outbox' = outbox
            /\ pc' = pc /\ mem' = mem
            /\ pc'[j] = "idle"
            /\ alarm'[j] = -1
            /\ inits' = inits]_vars

\* alarm() has run on a Durable Object that holds no record
C27_Witness ==
  /\ resp.op = "alarm"
  /\ ~Stored(resp.id)
  /\ alarm[resp.id] = -1 /\ pc[resp.id] = "idle"
  /\ outbox[resp.id] = <<>>

\* C28: a tick that finds in_progress = TRUE and processed >= total stores the
\* record with in_progress = FALSE and everything else as it was (processed,
\* success, failed, failures), sends no request and arms no timer; a further
\* tick on the record so stored changes nothing.
C28_CompletionGuard ==
  [][\A j \in JobIds :
       /\ (/\ resp'.op = "alarm" /\ resp'.id = j
           /\ Stored(j) /\ storage[j].in_progress
           /\ storage[j].processed >= storage[j].total)
            => /\ storage'[j] = [storage[j] EXCEPT !.in_progress = FALSE]
               /\ storage'[j].processed = storage[j].processed
               /\ storage'[j].success = storage[j].success
               /\ storage'[j].failed = storage[j].failed
               /\ storage'[j].failures = storage[j].failures
               /\ outbox' = outbox
               /\ pc'[j] = "idle" /\ mem' = mem
               /\ alarm'[j] = -1
       /\ (/\ resp'.op = "alarm" /\ resp'.id = j
           /\ Stored(j) /\ ~storage[j].in_progress
           /\ storage[j].processed >= storage[j].total)
            => /\ storage' = storage /\ outbox' = outbox
               /\ pc' = pc /\ mem' = mem
               /\ alarm'[j] = -1]_vars

\* a job of two recipients, one sent and one failed, has been marked
\* finished by a tick
C28_Witness ==
  /\ resp.op = "alarm"
  /\ Stored(resp.id) /\ ~storage[resp.id].in_progress
  /\ storage[resp.id].total = 2 /\ storage[resp.id].processed = 2
  /\ storage[resp.id].success = 1 /\ storage[resp.id].failed = 1
  /\ Len(storage[resp.id].failures) = 1
  /\ alarm[resp.id] = -1 /\ pc[resp.id] = "idle"

\* the positions, among the first n recipients of the job, of those whose
\* email resolves to a valid address
C29_ValidPositions(job, n) ==
  {k \in 1..n : isValidEmail(ResolveEmail(job.recipients[k]))}

\* the a-th of these positions in list order
C29_Nth(job, n, a) ==
  CHOOSE k \in C29_ValidPositions(job, n) :
    Cardinality({x \in C29_ValidPositions(job, n) : x <= k}) = a

\* the recipients taken up so far: those recorded and the one in flight
C29_TakenUp(j) == storage[j].processed + (IF pc[j] = "dispatching" THEN 1 ELSE 0)

\* C29: recipients are handled strictly in list order: the tick that runs
\* with processed = k handles recipients[k], so during a run the requests
\* sent are, in order, those to the valid-email recipients among the ones
\* taken up, none skipped or reordered, and the failure entries follow the
\* list order too.
C29_ListOrder ==
  \A j \in JobIds :
    C14_OneRun(j) =>
      LET job == storage[j]
          n   == C29_TakenUp(j)
      IN  /\ n <= job.total
          /\ pc[j] = "dispatching" => mem[j].idx = job.processed
          /\ env.SMTP2GO_API_KEY =>
                /\ Len(outbox[j]) = Cardinality(C29_ValidPositions(job, n))
                /\ \A a \in 1..Len(outbox[j]) :
                     /\ outbox[j][a].i = C29_Nth(job, n, a) - 1
                     /\ outbox[j][a].payload.to
                          = <<ResolveEmail(job.recipients[C29_Nth(job, n, a)]).s>>
          /\ ~env.SMTP2GO_API_KEY =>
                /\ outbox[j] = <<>>
                /\ Len(job.failures) = job.processed
          /\ \A a \in 1..Len(job.failures) :
                /\ job.failures[a].i < job.processed
                /\ a > 1 => job.failures[a - 1].i < job.failures[a].i
                /\ job.failures[a].email
                     = OrElse(ResolveEmail(job.recipients[job.failures[a].i + 1]),
                              Str(<<"(","m","i","s","s","i","n","g",")">>))

\* a job whose first recipient has no valid email and whose second has one:
\* the only request went to the second, after the failure of the first
C29_Witness ==
  \E j \in JobIds :
    /\ C14_OneRun(j) /\ pc[j] = "idle" /\ env.SMTP2GO_API_KEY
    /\ storage[j].total = 2 /\ storage[j].processed = 2
    /\ storage[j].recipients = <<R_bad, R_valid>>
    /\ Len(outbox[j]) = 1 /\ outbox[j][1].i = 1
    /\ outbox[j][1].payload.to = <<<<"a","@","x",".","i","o">>>>
    /\ storage[j].failures[1].i = 0

\* the reference: trim; replace every character outside [A-Za-z0-9_], and a
\* leading digit, with "_"; strip leading and trailing "_"; "col" when empty
C30_Reference(k) ==
  LET t == Trim(k)
      r == [i \in 1..Len(t) |->
              IF t[i] \notin (Letter \cup Digit \cup {"_"}) \/ (i = 1 /\ t[i] \in Digit)
                THEN "_" ELSE t[i]]
      u == StripBoth(r, {"_"})
  IN  IF u = <<>> THEN <<"c","o","l">> ELSE u

\* C30: for every string k, normalize(k) equals the reference applied to k.
C30_NormalizeMatchesReference ==
  (probe.fn = "normalizeColumnName" /\ probe.out # <<>>)
    => probe.out[1] = C30_Reference(probe.arg)

\* the values the recipient holds under the column name as written
C31_ValuesOf(recipient, name) ==
  {recipient[i][2] : i \in {x \in 1..Len(recipient) : recipient[x][1] = name}}

\* C31: a placeholder written with a column name of the recipient (letters,
\* digits, underscore, space, hyphen or dot, with or without whitespace inside
\* the braces) is replaced by the value the recipient has in that column.
C31_OwnColumnSubstituted ==
  (probe.fn = "placeholder" /\ probe.out # <<>>)
    => \A v \in C31_ValuesOf(probe.arg.recipient, probe.arg.name) :
         v.t # "null" => probe.out[1] = <<"<">> \o v.s \o <<">">>

\* the keys of the context built from the recipient
C32_ContextKeys(recipient) ==
  {normalizeColumnName(recipient[i][1]) : i \in 1..Len(recipient)}

\* the placeholder name matches no context key exactly, but matches one when
\* letter case is ignored
C32_CaseOnly(name, recipient) ==
  /\ normalizeColumnName(Trim(name)) \notin C32_ContextKeys(recipient)
  /\ \E k \in C32_ContextKeys(recipient) :
       ToLowerCase(k) = ToLowerCase(normalizeColumnName(Trim(name)))

\* C32: keys are matched exactly after normalization, without case folding:
\* a placeholder that differs from a context key only in letter case is
\* treated as missing and stays in the output as written.
C32_NoCaseFolding ==
  (probe.fn = "placeholder" /\ probe.out # <<>>
     /\ C32_CaseOnly(probe.arg.name, probe.arg.recipient))
    => probe.out[1] = probe.arg.tmpl

\* {{ A b }} has been rendered for a recipient whose only column is "a b":
\* the placeholder stands as written
C32_Witness ==
  /\ probe.fn = "placeholder"
  /\ probe.arg.name = <<"A"," ","b">> /\ probe.arg.pad = <<" ">>
  /\ probe.arg.recipient = << <<<<"a"," ","b">>, Str(<<"v">>)>> >>
  /\ probe.out = << <<"<","{","{"," ","A"," ","b"," ","}","}",">">> >>

\* C33: after every tick that processes a recipient the stored current is
\* the email resolved for that recipient, or "N/A" when none resolves; a
\* record no tick has processed yet shows the display value set by init.
C33_CurrentRecipient ==
  /\ [][\A j \in JobIds :
          (/\ resp'.op \in {"alarm", "email/send"} /\ resp'.id = j
           /\ pc'[j] = "idle" /\ storage'[j] # storage[j]
           /\ storage'[j].processed = C13_Loaded(j).processed + 1)
            => LET e == ResolveEmail(
                          C13_Loaded(j).recipients[C13_Loaded(j).processed + 1])
               IN  storage'[j].current
                     = (IF Truthy(e) THEN e ELSE Str(<<"N","/","A">>))]_vars
  /\ [](\A j \in JobIds :
          (Stored(j) /\ storage[j].processed = 0)
            => storage[j].current
                 = Str(<<"I","n","i","t","i","a","l","i","z","i","n","g",".",".",".">>))

\* a job whose first recipient resolved to an address and whose second
\* resolved to none: the record shows "N/A"
C33_Witness ==
  \E j \in JobIds :
    /\ Stored(j) /\ pc[j] = "idle"
    /\ storage[j].recipients = <<R_bad, R_upper>>
    /\ storage[j].processed = 2
    /\ storage[j].failures[1].email = Str(<<"n","o","t","-","a","n","-","e","m","a","i","l">>)
    /\ storage[j].current = Str(<<"N","/","A">>)

\* C34: when init replaces the record of a job while a tick of the earlier
\* job awaits its dispatch, the write that ends the tick leaves the new
\* record in place: the stored record is still the one init created.
C34_InitDuringDispatch(j) ==
  /\ pc[j] = "dispatching" /\ Stored(j)
  /\ storage[j].created # mem[j].job.created

C34_StaleTickKeepsNewRecord ==
  [][\A j \in JobIds :
       (C34_InitDuringDispatch(j) /\ pc'[j] = "idle")
         => /\ storage'[j].created = storage[j].created
            /\ storage'[j].recipients = storage[j].recipients
            /\ storage'[j].processed <= storage[j].processed + 1]_vars

\* C35: for a job with a non-empty recipient list, whenever a timer is armed
\* the stored record exists, is in progress and has processed < total.
C35_ArmedOnlyWithWorkLeft ==
  \A j \in JobIds :
    (alarm[j] # NoAlarm /\ (Stored(j) => storage[j].total > 0))
      => /\ Stored(j)
         /\ storage[j].in_progress
         /\ storage[j].processed < storage[j].total

\* C36: in every stored snapshot the failures list has exactly `failed`
\* entries, their recipient indices are strictly increasing, and each index
\* is less than processed.
C36_FailuresWellFormed ==
  \A j \in JobIds :
    Stored(j) =>
      LET f == storage[j].failures
      IN  /\ Len(f) = storage[j].failed
          /\ \A a, b \in 1..Len(f) : a < b => f[a].i < f[b].i
          /\ \A a \in 1..Len(f) : f[a].i >= 0 /\ f[a].i < storage[j].processed

\* two failures recorded, at the indices 0 and 1
C36_Witness ==
  \E j \in JobIds :
    /\ Stored(j) /\ storage[j].failed = 2
    /\ storage[j].failures[1].i = 0
    /\ storage[j].failures[2].i = 1

\* C37: a tick never changes the job's id, created timestamp, recipient
\* list, total, interval or templates: the record a tick step stores agrees
\* in these fields with the record the tick loaded; and total equals the
\* length of the recipient list in every stored record.
C37_Fixed(job) ==
  <<job.id, job.created, job.recipients, job.total, job.interval,
    job.subjectTmpl, job.htmlTmpl, job.fromEmailTmpl, job.fromNameTmpl>>

C37_TickFrame ==
  /\ [][\A j \in JobIds :
          (/\ resp'.op \in {"alarm", "email/send"} /\ resp'.id = j
           /\ C13_Loaded(j) # NoJob)
            => /\ storage'[j] # NoJob
               /\ C37_Fixed(storage'[j]) = C37_Fixed(C13_Loaded(j))]_vars
  /\ [](\A j \in JobIds :
          Stored(j) => storage[j].total = Len(storage[j].recipients))

\* a job of two recipients after its second tick
C37_Witness ==
  \E j \in JobIds :
    /\ Stored(j) /\ pc[j] = "idle"
    /\ resp.op \in {"alarm", "email/send"} /\ resp.id = j
    /\ storage[j].total = 2 /\ storage[j].processed = 2
    /\ storage[j].success = 1

\* C39: rendering is a single pass: a value that is substituted is not
\* scanned again, so a recipient value that is itself a placeholder for
\* another key of the context appears in the output as written.
C39_PlaceholderText == <<"{","{","x",".","y","}","}">>

C39_SinglePass ==
  (probe.fn = "placeholder" /\ probe.out # <<>>)
    => LET a   == probe.arg
           ctx == BuildContext(a.recipient)
           key == normalizeColumnName(Trim(a.name))
       IN  (/\ CtxLookup(ctx, key) = Str(C39_PlaceholderText)
            /\ CtxLookup(ctx, normalizeColumnName(<<"x",".","y">>)) \in {Str(<<"v">>), Str(<<>>), JsNum0, JsFalse})
             => probe.out[1] = <<"<">> \o C39_PlaceholderText \o <<">">>

C39_Witness ==
  /\ probe.fn = "placeholder" /\ probe.out # <<>>
  /\ probe.arg.name = <<"a"," ","b">>
  /\ probe.arg.recipient = << <<(<<"a"," ","b">>), Str(C39_PlaceholderText)>>,
                              <<(<<"x",".","y">>), Str(<<"v">>)>> >>
  /\ probe.out[1] = <<"<","{","{","x",".","y","}","}",">">>

\* C40: only an absent, null or undefined context value counts as missing:
\* a key whose value is the empty string, 0 or false is replaced by "", "0"
\* or "false" and the placeholder does not remain; a key whose value is null
\* or that the context does not hold leaves the placeholder as written.
C40_StringForm(v) ==
  IF v = JsNum0 THEN <<"0">>
  ELSE IF v = JsFalse THEN <<"f","a","l","s","e">>
  ELSE <<>>

C40_FalsyValuesSubstituted ==
  (probe.fn = "placeholder" /\ probe.out # <<>>)
    => LET a   == probe.arg
           key == normalizeColumnName(Trim(a.name))
           v   == CtxLookup(BuildContext(a.recipient), key)
       IN  /\ (v \in {Str(<<>>), JsNum0, JsFalse})
                 => probe.out[1] = <<"<">> \o C40_StringForm(v) \o <<">">>
           /\ (v \in {JsNull, JsUndefined})
                 => probe.out[1] = a.tmpl

\* {{a_b}} rendered for a recipient whose column a_b holds false
C40_Witness ==
  /\ probe.fn = "placeholder" /\ probe.out # <<>>
  /\ probe.arg.name = <<"a","_","b">> /\ probe.arg.pad = <<>>
  /\ probe.arg.recipient = << <<(<<"a","_","b">>), JsFalse>> >>
  /\ probe.out[1] = <<"<","f","a","l","s","e",">">>

\* C38: for a campaign started from the page, once the job has processed its
\* last recipient the poller eventually accepts a status, runs the completion
\* handler, stops its timer and clears the active job id.
C38_PollerStops ==
  \A j \in JobIds :
    (ui.bulkSendJobId = j /\ Stored(j) /\ storage[j].processed = storage[j].total)
      ~> (ui.bulkSendJobId = NullId /\ ui.statusPollInterval = NullId)

====
